---- MODULE Spec2Model ----
(***************************************************************************)
(* INSIGHTs prototypes: the mock-data generators of simu_prototype.py and  *)
(* the faculty analytics (miss graph, correlation) of streamlit_app.py.    *)
(*                                                                         *)
(* Units: rubric scores are integers in tenths (0..40 for the 0-4 scale);  *)
(* raw values before rounding are integers in thousandths.  The Mersenne   *)
(* Twister of the runtime is replaced by a 16-bit linear congruential      *)
(* generator: what matters to the properties is that a stream is a         *)
(* function of its seed and of the number of draws taken from it.          *)
(***************************************************************************)
EXTENDS Integers, Sequences, FiniteSets, TLC

(* ------------------------------ bounds --------------------------------- *)
MaxStudents == 2
MaxAttempts == 2
MaxDraws == 1

(* ------------------------- program constants --------------------------- *)
RANDOM_SEED == 42

GROUPS ==
  << <<"PRO_01_Question_Formulation",
       <<"question_depth", "question_types", "question_timing", "question_clarity">> >>,
     <<"PRO_02_Response_Quality",
       <<"reflective_pausing", "response_completeness", "understanding_verification",
         "empathic_acknowledgment">> >>,
     <<"PRO_03_Critical_Thinking",
       <<"assumption_recognition", "reasoning_transparency", "differential_thinking",
         "complexity_navigation">> >>,
     <<"PRO_04_Humility_Partnership",
       <<"plan_flexibility", "expertise_acknowledgment", "uncertainty_communication",
         "partnership_language">> >>,
     <<"PRO_05_Reflective_Practice",
       <<"in_encounter_adjustment", "bias_recognition", "style_awareness",
         "post_encounter_reflection">> >> >>

GROUPS_PROaCTIVE ==
  << <<"PRO_01_Question_Formulation",
       <<"inquiry_clarity", "question_precision", "conceptual_targeting", "probing_depth">> >>,
     <<"PRO_02_Response_Quality",
       <<"answer_accuracy", "response_completeness", "evidence_integration",
         "clarity_expression">> >>,
     <<"PRO_03_Critical_Thinking",
       <<"logical_reasoning", "argument_evaluation", "inference_quality",
         "pattern_recognition">> >>,
     <<"PRO_04_Assumption_Recognition",
       <<"implicit_assumptions", "bias_awareness", "premise_examination",
         "context_sensitivity">> >> >>

GroupMaps == {GROUPS, GROUPS_PROaCTIVE}

RECURSIVE Concat(_, _)
Concat(seqs, i) ==
  IF i > Len(seqs) THEN << >> ELSE seqs[i] \o Concat(seqs, i + 1)

(* ELEMENTS = [el for group in GROUPS.values() for el in group] *)
ElementsOf(groups) == Concat([i \in 1..Len(groups) |-> groups[i][2]], 1)

ELEMENTS == ElementsOf(GROUPS)

(* the (group, element) pairs in the order the nested loops visit them *)
GroupElementPairs(groups) ==
  Concat([i \in 1..Len(groups) |->
            [j \in 1..Len(groups[i][2]) |-> <<groups[i][1], groups[i][2][j]>>]], 1)

Range(f) == {f[i] : i \in DOMAIN f}

scenarios == <<"PROaCTIVE : Cardio A", "PROaCTIVE : Cardio B", "PROaCTIVE : Respiratory">>
modes == <<"Socratic", "Verbal", "Mixed">>

ENCOUNTER_ELEMENTS ==
  <<"chief_complaint", "hpi", "pmh", "social_history", "ros", "family_history",
    "surgical_history", "allergies">>

SPEECH_METRICS == <<"volume", "pace", "pitch", "pauses">>

(* socratic_specs: the metric names, with ' ' already replaced by '_' *)
socratic_specs ==
  <<"Question_Depth", "Response_Completeness", "Assumption_Recognition",
    "Plan_Flexibility", "In-Encounter_Adjustment">>

(* ------------------------ the random streams --------------------------- *)
Modulus == 65536
RandResolution == 1024

(* random.seed(x): the state is a function of x alone, and the cached      *)
(* second Gaussian value (gauss_next) is discarded                         *)
RandSeed(x) == [s |-> (x * 2053 + 13849) % Modulus, has_next |-> FALSE, next |-> 0]

(* numpy's generators are seeded by another function of the seed *)
NpRandSeed(x) == [s |-> (x * 4099 + 9973) % Modulus, has_next |-> FALSE, next |-> 0]

(* Operator arguments are evaluated on demand; a recursive operator tests  *)
(* Evaluated(st) (always true) before it recurses, so that the stream      *)
(* state it was handed is computed then and not as one nested chain at the *)
(* end of the whole generation                                             *)
Evaluated(st) == st.s >= 0

LcgStep(s) == (25173 * s + 13849) % Modulus

(* random.random(): advances the stream; v in 0..RandResolution-1 stands   *)
(* for the float v / RandResolution in [0, 1)                              *)
Random(st) ==
  LET s2 == LcgStep(st.s)
  IN [st |-> [st EXCEPT !.s = s2], v |-> s2 \div (Modulus \div RandResolution)]

(* random.uniform(a, b) = a + (b - a) * random(), a and b in thousandths *)
Uniform(st, a, b) ==
  LET d == Random(st)
  IN [st |-> d.st, v |-> a + ((b - a) * d.v) \div RandResolution]

(* Box-Muller tables, thousandths: cos and sin of the angle 2*pi*u by      *)
(* octant, and the radius sqrt(-2 ln(1 - u)) by sixteenth (the last        *)
(* bucket stands for the tail)                                             *)
CosTable == <<924, 383, -383, -924, -924, -383, 383, 924>>
SinTable == <<383, 924, 924, 383, -383, -924, -924, -383>>
RadiusTable == <<252, 444, 583, 703, 813, 918, 1021, 1125,
                 1231, 1342, 1461, 1593, 1743, 1927, 2176, 3200>>

(* a * b / 1000 truncated toward zero, as int() of the float product *)
MulMilli(a, b) ==
  LET p == a * b
  IN IF p >= 0 THEN p \div 1000 ELSE -((-p) \div 1000)

(* random.gauss(mu, sigma): returns the cached value when there is one,    *)
(* otherwise draws two uniforms, returns one normal deviate and caches     *)
(* the other                                                               *)
Gauss(st, mu, sigma) ==
  IF st.has_next
  THEN [st |-> [st EXCEPT !.has_next = FALSE], v |-> mu + MulMilli(st.next, sigma)]
  ELSE LET d1 == Random(st)
           d2 == Random(d1.st)
           oct == (d1.v \div (RandResolution \div 8)) + 1
           rad == RadiusTable[(d2.v \div (RandResolution \div 16)) + 1]
           z == MulMilli(CosTable[oct], rad)
           zn == MulMilli(SinTable[oct], rad)
       IN [st |-> [d2.st EXCEPT !.has_next = TRUE, !.next = zn],
           v |-> mu + MulMilli(z, sigma)]

(* round(raw, 1): thousandths to tenths, ties to the even tenth *)
Round1(raw) ==
  LET q == raw \div 100
      r == raw % 100
  IN IF r > 50 THEN q + 1
     ELSE IF r < 50 THEN q
     ELSE IF q % 2 = 0 THEN q ELSE q + 1

ClampNoUpper(lo, hi, x) == IF x < lo THEN lo ELSE x

(* max(lo, min(hi, x)) *)
Clamp(lo, hi, x) == IF x > hi THEN hi ELSE IF x < lo THEN lo ELSE x

(* --------------------- generate_mock_data ------------------------------ *)
StudentId(i) == IF i < 10 THEN "S0" \o ToString(i) ELSE "S" \o ToString(i)

(* students = [f"S{str(i).zfill(2)}" for i in range(1, n_students + 1)] *)
StudentList(n) == [i \in 1..n |-> StudentId(i)]

(* attempts = list(range(1, n_attempts + 1)) *)
AttemptList(n) == [i \in 1..n |-> i]

(* {k: random.uniform(a, b) for k in keys}: one draw per key, in order *)
RECURSIVE UniformDict(_, _, _, _, _, _)
UniformDict(st, keys, i, a, b, acc) ==
  IF i > Len(keys) \/ ~Evaluated(st) THEN [st |-> st, v |-> acc]
  ELSE LET d == Uniform(st, a, b)
       IN UniformDict(d.st, keys, i + 1, a, b,
                      [k \in (DOMAIN acc) \cup {keys[i]} |->
                          IF k = keys[i] THEN d.v ELSE acc[k]])

EmptyDict == [k \in {} |-> 0]

GroupNames(groups) == [i \in 1..Len(groups) |-> groups[i][1]]

(* n successive random.gauss(mu, sigma) draws, in order *)
RECURSIVE GaussSeq(_, _, _, _, _)
GaussSeq(st, n, mu, sigma, acc) ==
  IF n = 0 \/ ~Evaluated(st) THEN [st |-> st, v |-> acc]
  ELSE LET d == Gauss(st, mu, sigma)
       IN GaussSeq(d.st, n - 1, mu, sigma, Append(acc, d.v))

(* position of the value a column name ends up with when the (group,       *)
(* element) pairs are written into a row one after the other               *)
ColumnIndex(pairs) ==
  [e \in {pairs[i][2] : i \in 1..Len(pairs)} |->
     CHOOSE i \in 1..Len(pairs) :
       pairs[i][2] = e /\ \A j \in (i + 1)..Len(pairs) : pairs[j][2] # e]

(* the inner loop over groups.items() and their elements: one Gaussian     *)
(* noise draw per element, rounded and clamped into the row                *)
ElementScores(st, row, pairs, cols, base, improvement, sens, bias, modifiers) ==
  LET noise == GaussSeq(st, Len(pairs), 0, 500, << >>)
      val == [i \in 1..Len(pairs) |->
                Clamp(0, 40, Round1(base + MulMilli(improvement, sens[pairs[i][1]])
                                    + bias[pairs[i][1]] + modifiers + noise.v[i]))]
  IN [st |-> noise.st, v |-> [e \in DOMAIN cols |-> val[cols[e]]] @@ row]

(* the body of "for a in attempts": three draws, then the element loop *)
MockRow(st, s, a, scenario, mode, base, sens, bias, pairs, cols) ==
  LET d1 == Uniform(st, 100, 300)
      improvement == (a - 1) * d1.v
      d2 == Gauss(d1.st, 0, 100)
      d3 == Gauss(d2.st, 0, 100)
      row == [student_id |-> s, attempt |-> a, scenario |-> scenario, mode |-> mode]
  IN ElementScores(d3.st, row, pairs, cols, base, improvement, sens, bias, d2.v + d3.v)

NumCombosNoModes(attempts) == Len(scenarios) * Len(attempts)

(* iterations of "for scenario in scenarios: for mode in modes: for a in   *)
(* attempts"                                                               *)
NumCombos(attempts) == Len(scenarios) * Len(modes) * Len(attempts)

(* for scenario in scenarios: for mode in modes: for a in attempts:        *)
(* k counts the iterations of the three nested loops                       *)
RECURSIVE StudentRows(_, _, _, _, _, _, _, _, _, _)
StudentRows(st, s, attempts, k, base, sens, bias, pairs, cols, rows) ==
  IF k > NumCombos(attempts) \/ ~Evaluated(st) \/ Len(rows) < 0
  THEN [st |-> st, v |-> rows]
  ELSE LET na == Len(attempts)
           scenario == scenarios[((k - 1) \div (Len(modes) * na)) + 1]
           mode == modes[(((k - 1) \div na) % Len(modes)) + 1]
           a == attempts[((k - 1) % na) + 1]
           r == MockRow(st, s, a, scenario, mode, base, sens, bias, pairs, cols)
       IN StudentRows(r.st, s, attempts, k + 1, base, sens, bias, pairs, cols,
                      Append(rows, r.v))

(* for s in students: the per-student bias draws, then the student's rows *)
RECURSIVE AllRows(_, _, _, _, _, _, _, _, _, _)
AllRows(st, students, i, attempts, baselines, sens, names, pairs, cols, rows) ==
  IF i > Len(students) \/ ~Evaluated(st) \/ Len(rows) < 0 THEN [st |-> st, v |-> rows]
  ELSE LET s == students[i]
           b == UniformDict(st, names, 1, -300, 300, EmptyDict)
           r == StudentRows(b.st, s, attempts, 1, baselines[s], sens, b.v, pairs, cols,
                            rows)
       IN AllRows(r.st, students, i + 1, attempts, baselines, sens, names, pairs, cols, r.v)

(* df.sample(frac=1.0, random_state=seed).reset_index(drop=True): a        *)
(* Fisher-Yates permutation driven by a private stream seeded with seed;   *)
(* ShuffleSteps does the steps i, i-1, ..., stop+1                         *)
RECURSIVE ShuffleSteps(_, _, _, _)
ShuffleSteps(st, rows, i, stop) ==
  IF i <= stop \/ ~Evaluated(st) \/ Len(rows) < 0 THEN [st |-> st, v |-> rows]
  ELSE LET d == Random(st)
           j == ((d.v * i) \div RandResolution) + 1
           swapped == [rows EXCEPT ![i] = rows[j], ![j] = rows[i]]
       IN ShuffleSteps(d.st, swapped, i - 1, stop)

(* the steps are taken sixteen at a time, which keeps the evaluation of a  *)
(* long table shallow                                                      *)
RECURSIVE Shuffle(_, _, _)
Shuffle(st, rows, i) ==
  IF i <= 1 \/ ~Evaluated(st) \/ Len(rows) < 0 THEN rows
  ELSE LET stop == IF i > 17 THEN i - 16 ELSE 1
           r == ShuffleSteps(st, rows, i, stop)
       IN Shuffle(r.st, r.v, stop)

Sample(rows, seed) == Shuffle(NpRandSeed(seed), rows, Len(rows))

SeedStreamsKeep(st, seed) == st

(* random.seed(seed) (np.random.seed(seed) is SeedNumpy) *)
SeedStreams(st, seed) == RandSeed(seed)

(* generate_mock_data(students, attempts, seed, groups), called when the   *)
(* process-wide stream is in state st: the table and the stream afterwards *)
generate_mock_data(st, students, attempts, seed, groups) ==
  LET st0 == SeedStreams(st, seed)
      bl == UniformDict(st0, students, 1, 1200, 2800, EmptyDict)
      names == GroupNames(groups)
      pairs == GroupElementPairs(groups)
      gs == UniformDict(bl.st, names, 1, 800, 1200, EmptyDict)
      rs == AllRows(gs.st, students, 1, attempts, bl.v, gs.v, names, pairs,
                    ColumnIndex(pairs), << >>)
  IN [st |-> rs.st, df |-> Sample(rs.v, seed)]

(* scenario_modifier and mode_modifier of the loop iteration that starts   *)
(* with the stream in state st: the second and third draw of the body      *)
RowModifiers(st) ==
  LET d1 == Uniform(st, 100, 300)
      d2 == Gauss(d1.st, 0, 100)
      d3 == Gauss(d2.st, 0, 100)
  IN [scenario_modifier |-> d2.v, mode_modifier |-> d3.v]

(* the loops of generate_mock_data once more, keeping for every iteration  *)
(* of "for a in attempts" the two modifiers it drew                        *)
RECURSIVE StudentModifiers(_, _, _, _, _, _, _, _, _, _)
StudentModifiers(st, s, attempts, k, base, sens, bias, pairs, cols, log) ==
  IF k > NumCombos(attempts) \/ ~Evaluated(st) \/ Len(log) < 0
  THEN [st |-> st, v |-> log]
  ELSE LET na == Len(attempts)
           scenario == scenarios[((k - 1) \div (Len(modes) * na)) + 1]
           mode == modes[(((k - 1) \div na) % Len(modes)) + 1]
           a == attempts[((k - 1) % na) + 1]
           r == MockRow(st, s, a, scenario, mode, base, sens, bias, pairs, cols)
           m == RowModifiers(st)
       IN StudentModifiers(r.st, s, attempts, k + 1, base, sens, bias, pairs, cols,
                           Append(log, [student_id |-> s, attempt |-> a,
                                        scenario |-> scenario, mode |-> mode,
                                        scenario_modifier |-> m.scenario_modifier,
                                        mode_modifier |-> m.mode_modifier]))

RECURSIVE AllModifiers(_, _, _, _, _, _, _, _, _, _)
AllModifiers(st, students, i, attempts, baselines, sens, names, pairs, cols, log) ==
  IF i > Len(students) \/ ~Evaluated(st) \/ Len(log) < 0 THEN [st |-> st, v |-> log]
  ELSE LET s == students[i]
           b == UniformDict(st, names, 1, -300, 300, EmptyDict)
           r == StudentModifiers(b.st, s, attempts, 1, baselines[s], sens, b.v, pairs,
                                 cols, log)
       IN AllModifiers(r.st, students, i + 1, attempts, baselines, sens, names, pairs,
                       cols, r.v)

(* the modifiers generate_mock_data(students, attempts, seed, groups)      *)
(* draws, one entry per row in generation order                            *)
ModifierLog(students, attempts, seed, groups) ==
  LET st0 == RandSeed(seed)
      bl == UniformDict(st0, students, 1, 1200, 2800, EmptyDict)
      names == GroupNames(groups)
      pairs == GroupElementPairs(groups)
      gs == UniformDict(bl.st, names, 1, 800, 1200, EmptyDict)
  IN AllModifiers(gs.st, students, 1, attempts, bl.v, gs.v, names, pairs,
                  ColumnIndex(pairs), << >>)

(* --------------------- generate_socratic_metrics ----------------------- *)
socratic_areas ==
  <<"Question Formulation", "Response Quality", "Critical Thinking",
    "Humility Partnership", "Reflective Practice">>

(* a probability that does not grow with the attempt *)
CompletionProbFlat(attempt) == 500

(* completion_prob = 0.5 + (attempt - 1) * 0.08, in thousandths *)
CompletionProb(attempt) == 500 + (attempt - 1) * 80

(* for enc_elem in ENCOUNTER_ELEMENTS: 1 if random.random() < prob else 0 *)
RECURSIVE EncounterFlags(_, _, _, _)
EncounterFlags(st, wide, attempt, i) ==
  IF i > Len(ENCOUNTER_ELEMENTS) \/ ~Evaluated(st) THEN [st |-> st, v |-> wide]
  ELSE LET d == Random(st)
           flag == IF d.v * 1000 < CompletionProb(attempt) * RandResolution THEN 1 ELSE 0
       IN EncounterFlags(d.st, (("encounter_" \o ENCOUNTER_ELEMENTS[i]) :> flag) @@ wide,
                         attempt, i + 1)

(* for speech_metric in SPEECH_METRICS: base, improvement and noise are    *)
(* all drawn per attempt; clamped to the 0-10 scale                        *)
RECURSIVE SpeechScores(_, _, _, _)
SpeechScores(st, wide, attempt, i) ==
  IF i > Len(SPEECH_METRICS) \/ ~Evaluated(st) THEN [st |-> st, v |-> wide]
  ELSE LET d1 == Uniform(st, 7000, 8500)
           d2 == Uniform(d1.st, 100, 300)
           d3 == Gauss(d2.st, 0, 500)
           score == Clamp(0, 100, Round1(d1.v + (attempt - 1) * d2.v + d3.v))
       IN SpeechScores(d3.st, (("speech_" \o SPEECH_METRICS[i]) :> score) @@ wide,
                       attempt, i + 1)

(* for area, metric, measurement in socratic_specs: the student's base     *)
(* plus a progression and a noise draw; clamped to the 0-5 scale           *)
RECURSIVE SocraticScores(_, _, _, _, _, _, _)
SocraticScores(st, wide, long, s, attempt, student_bases, i) ==
  IF i > Len(socratic_specs) \/ ~Evaluated(st) \/ Len(long) < 0
  THEN [st |-> st, v |-> wide, long |-> long]
  ELSE LET metric == socratic_specs[i]
           d1 == Uniform(st, 100, 300)
           d2 == Gauss(d1.st, 0, 400)
           score == Clamp(0, 50, Round1(student_bases[metric] + (attempt - 1) * d1.v + d2.v))
           lrow == [student_id |-> s, attempt |-> attempt,
                    competency_area |-> socratic_areas[i], metric |-> metric,
                    score |-> score]
       IN SocraticScores(d2.st, (("socratic_" \o metric) :> score) @@ wide,
                         Append(long, lrow), s, attempt, student_bases, i + 1)

AttemptRangeShort(num_attempts) == [i \in 1..(num_attempts - 1) |-> i]

(* range(1, num_attempts + 1) *)
AttemptRange(num_attempts) == [i \in 1..num_attempts |-> i]

(* for attempt in range(1, num_attempts + 1): one wide row per attempt *)
RECURSIVE SocraticAttempts(_, _, _, _, _, _, _)
SocraticAttempts(st, s, attempts, i, student_bases, wide_rows, long) ==
  IF i > Len(attempts) \/ ~Evaluated(st) \/ Len(wide_rows) < 0 \/ Len(long) < 0
  THEN [st |-> st, v |-> wide_rows, long |-> long]
  ELSE LET attempt == attempts[i]
           w0 == [student_id |-> s, attempt |-> attempt]
           e == EncounterFlags(st, w0, attempt, 1)
           sp == SpeechScores(e.st, e.v, attempt, 1)
           so == SocraticScores(sp.st, sp.v, long, s, attempt, student_bases, 1)
       IN SocraticAttempts(so.st, s, attempts, i + 1, student_bases,
                           Append(wide_rows, so.v), so.long)

(* for s in students: the bases of the student, then the attempts *)
RECURSIVE SocraticStudents(_, _, _, _, _, _)
SocraticStudents(st, students, i, num_attempts, wide_rows, long) ==
  IF i > Len(students) \/ ~Evaluated(st) \/ Len(wide_rows) < 0 \/ Len(long) < 0
  THEN [st |-> st, v |-> wide_rows, long |-> long]
  ELSE LET b == UniformDict(st, socratic_specs, 1, 1200, 2800, EmptyDict)
           r == SocraticAttempts(b.st, students[i], AttemptRange(num_attempts), 1,
                                 b.v, wide_rows, long)
       IN SocraticStudents(r.st, students, i + 1, num_attempts, r.v, r.long)

(* generate_socratic_metrics(students, seed, num_attempts): (df_long,      *)
(* df_wide) and the process-wide stream afterwards                         *)
generate_socratic_metrics(st, students, seed, num_attempts) ==
  LET r == SocraticStudents(SeedStreams(st, seed), students, 1, num_attempts, << >>, << >>)
  IN [st |-> r.st, df_long |-> r.long, df_wide |-> r.v]

(* base_score of each speech metric in the iteration of "for attempt" that *)
(* reaches the speech loop with the stream in state st                     *)
RECURSIVE SpeechBases(_, _, _, _, _)
SpeechBases(st, s, attempt, i, log) ==
  IF i > Len(SPEECH_METRICS) \/ ~Evaluated(st) THEN log
  ELSE LET d1 == Uniform(st, 7000, 8500)
           d2 == Uniform(d1.st, 100, 300)
           d3 == Gauss(d2.st, 0, 500)
       IN SpeechBases(d3.st, s, attempt, i + 1,
                      Append(log, [student_id |-> s, attempt |-> attempt,
                                   metric |-> SPEECH_METRICS[i], base |-> d1.v]))

(* base of each dialogue metric in an attempt of the student *)
SocraticBases(s, attempt, student_bases) ==
  [i \in 1..Len(socratic_specs) |->
     [student_id |-> s, attempt |-> attempt, metric |-> socratic_specs[i],
      base |-> student_bases[socratic_specs[i]]]]

(* the loops of generate_socratic_metrics once more, keeping the base      *)
(* value behind every speech and dialogue score                            *)
RECURSIVE AttemptBases(_, _, _, _, _, _)
AttemptBases(st, s, attempts, i, student_bases, log) ==
  IF i > Len(attempts) \/ ~Evaluated(st) \/ Len(log) < 0 THEN [st |-> st, v |-> log]
  ELSE LET attempt == attempts[i]
           w0 == [student_id |-> s, attempt |-> attempt]
           e == EncounterFlags(st, w0, attempt, 1)
           sp == SpeechScores(e.st, e.v, attempt, 1)
           so == SocraticScores(sp.st, sp.v, << >>, s, attempt, student_bases, 1)
       IN AttemptBases(so.st, s, attempts, i + 1, student_bases,
                       SpeechBases(e.st, s, attempt, 1, log)
                         \o SocraticBases(s, attempt, student_bases))

RECURSIVE StudentBases(_, _, _, _, _)
StudentBases(st, students, i, num_attempts, log) ==
  IF i > Len(students) \/ ~Evaluated(st) \/ Len(log) < 0 THEN [st |-> st, v |-> log]
  ELSE LET b == UniformDict(st, socratic_specs, 1, 1200, 2800, EmptyDict)
           r == AttemptBases(b.st, students[i], AttemptRange(num_attempts), 1, b.v, log)
       IN StudentBases(r.st, students, i + 1, num_attempts, r.v)

(* the base values generate_socratic_metrics(students, seed, num_attempts) *)
(* uses, one entry per student, attempt and metric                         *)
BaseLog(students, seed, num_attempts) ==
  StudentBases(RandSeed(seed), students, 1, num_attempts, << >>)

(* ------------------- Faculty View: the cohort data --------------------- *)
PROACTIVE_RUBRIC == "PROaCTIVE: Simulation"

metric_options ==
  <<"Overall", "Question Formulation", "Response Quality", "Critical Thinking",
    "Humility Partnership", "Reflective Practice">>

Max(a, b) == IF a >= b THEN a ELSE b

Min(a, b) == IF a <= b THEN a ELSE b

(* e in some_list *)
IsIn(e, list) == \E i \in 1..Len(list) : list[i] = e

(* df[df['student_id'].isin(students[:len(students)//2])] for Undergrad,   *)
(* the other half for Graduate, df.copy() for All                          *)
CohortFilter(table, cohort, students) ==
  LET h == Len(students) \div 2
      ids == IF cohort = "Undergrad" THEN {students[i] : i \in 1..h}
             ELSE IF cohort = "Graduate" THEN {students[i] : i \in (h + 1)..Len(students)}
             ELSE Range(students)
  IN SelectSeq(table, LAMBDA r : r.student_id \in ids)

(* df['attempt'].max() *)
MaxAttempt(table) ==
  CHOOSE a \in {table[i].attempt : i \in 1..Len(table)} :
    \A i \in 1..Len(table) : table[i].attempt <= a

TimeWindowFilter(data, time_window, table) ==
  IF time_window = "Attempts 1-5" THEN SelectSeq(data, LAMBDA r : r.attempt <= 5)
  ELSE IF time_window = "Recent 3"
       THEN SelectSeq(data, LAMBDA r : r.attempt >= MaxAttempt(table) - 2)
       ELSE data

(* drop_duplicates(subset=['student_id', 'attempt'], keep='first'): the    *)
(* first row of each (student_id, attempt) key, in the order of the frame  *)
DropDuplicates(rows) ==
  LET key(i) == <<rows[i].student_id, rows[i].attempt>>
      keys == {key(i) : i \in 1..Len(rows)}
      first(k) == CHOOSE i \in 1..Len(rows) :
                    key(i) = k /\ \A j \in 1..(i - 1) : key(j) # k
      firsts == {first(k) : k \in keys}
      nth(n) == CHOOSE i \in firsts : Cardinality({j \in firsts : j < i}) = n - 1
  IN [n \in 1..Cardinality(firsts) |-> rows[nth(n)]]

(* combined_cohort_data: both cohorts when both use the PROaCTIVE rubric,  *)
(* the one that does otherwise, an empty frame when neither does           *)
CombinedCohortData(v, table, students) ==
  LET cohort_a_data ==
        TimeWindowFilter(CohortFilter(table, v.cohort_a, students), v.time_window, table)
      cohort_b_data ==
        TimeWindowFilter(CohortFilter(table, v.cohort_b, students), v.time_window, table)
  IN IF v.rubric_a = PROACTIVE_RUBRIC /\ v.rubric_b = PROACTIVE_RUBRIC
     THEN DropDuplicates(cohort_a_data \o cohort_b_data)
     ELSE IF v.rubric_a = PROACTIVE_RUBRIC THEN cohort_a_data
     ELSE IF v.rubric_b = PROACTIVE_RUBRIC THEN cohort_b_data
     ELSE << >>

(* the elements the metric filter selects: the k-th criterion names the    *)
(* k-th group of the domain map, anything else selects ELEMENTS            *)
MetricElements(groups, metric) ==
  LET named == {k \in 1..Len(groups) : metric_options[k + 1] = metric}
  IN IF named = {} THEN ElementsOf(groups) ELSE groups[CHOOSE k \in named : TRUE][2]

(* ------------------- Faculty View: the miss graph ---------------------- *)
(* a score equal to the threshold counted as a miss too *)
CohortMissesInclusive(data, centrality_elements, miss_threshold) ==
  [i \in 1..Len(data) |->
     [c \in Range(centrality_elements) |-> data[i][c] <= miss_threshold] @@ data[i]]

(* cohort_misses[c] = cohort_misses[c] < miss_threshold, for c in          *)
(* centrality_elements                                                     *)
CohortMisses(data, centrality_elements, miss_threshold) ==
  [i \in 1..Len(data) |->
     [c \in Range(centrality_elements) |-> data[i][c] < miss_threshold] @@ data[i]]

(* cohort_misses.groupby('student_id')[centrality_elements].any() *)
StudentMisses(cohort_misses, centrality_elements) ==
  LET ids == {cohort_misses[i].student_id : i \in 1..Len(cohort_misses)}
  IN [s \in ids |->
        [c \in Range(centrality_elements) |->
           \E i \in 1..Len(cohort_misses) :
             cohort_misses[i].student_id = s /\ cohort_misses[i][c]]]

(* (student_misses[c1] & student_misses[c2]).sum() *)
CoMiss(student_misses, c1, c2) ==
  Cardinality({s \in DOMAIN student_misses : student_misses[s][c1] /\ student_misses[s][c2]})

RECURSIVE SumSeq(_, _)
SumSeq(f, i) == IF i > Len(f) THEN 0 ELSE f[i] + SumSeq(f, i + 1)

(* nx.Graph(): the node list in insertion order, the node attribute, and   *)
(* the adjacency, which holds an edge under both orders of its end points  *)
EmptyGraph == [nodes |-> << >>, miss_count |-> EmptyDict, adj |-> EmptyDict]

add_node(G, n, miss_count) ==
  [G EXCEPT !.nodes = IF IsIn(n, G.nodes) THEN G.nodes ELSE Append(G.nodes, n),
            !.miss_count = (n :> miss_count) @@ G.miss_count]

add_edge(G, u, v, weight) ==
  LET with_u == IF IsIn(u, G.nodes) THEN G.nodes ELSE Append(G.nodes, u)
      with_v == IF IsIn(v, with_u) THEN with_u ELSE Append(with_u, v)
  IN [G EXCEPT !.nodes = with_v,
               !.adj = (<<u, v>> :> weight) @@ (<<v, u>> :> weight) @@ G.adj]

(* len(G.edges()) > 0 *)
HasEdges(G) == DOMAIN G.adj # {}

EffectiveMinMissesFixed(centrality_elements, min_misses) == min_misses

(* the adaptive threshold: len(centrality_elements) <= 4 relaxes it to 1 *)
EffectiveMinMisses(centrality_elements, min_misses) ==
  IF Len(centrality_elements) <= 4 THEN Max(1, Min(min_misses, 1)) ELSE min_misses

RestFromSelf(list, i) == SubSeq(list, i, Len(list))

(* some_list[i+1:], i counted from 1 *)
Rest(list, i) == SubSeq(list, i + 1, Len(list))

(* for i, a in enumerate(nodes): for b in nodes[i+1:]: the pairs visited *)
PairsVisited(nodes) ==
  Concat([i \in 1..Len(nodes) |->
            [j \in 1..Len(Rest(nodes, i)) |-> <<nodes[i], Rest(nodes, i)[j]>>]], 1)

(* Node level: a node per element with its number of missed rows *)
RECURSIVE ElementNodes(_, _, _, _)
ElementNodes(G, centrality_elements, cohort_misses, i) ==
  IF i > Len(centrality_elements) \/ Len(G.nodes) < 0 THEN G
  ELSE LET c == centrality_elements[i]
           miss_count == Cardinality({k \in 1..Len(cohort_misses) : cohort_misses[k][c]})
       IN ElementNodes(add_node(G, c, miss_count), centrality_elements, cohort_misses,
                       i + 1)

ElementEdgeAlways(co_miss, effective_min_misses) == co_miss >= 0

(* if co_miss >= effective_min_misses *)
ElementEdgeQualifies(co_miss, effective_min_misses) == co_miss >= effective_min_misses

(* for c2 in centrality_elements[i+1:]: an edge from c1 to each later      *)
(* element that enough students missed together with c1                    *)
RECURSIVE ElementEdgesFrom(_, _, _, _, _, _)
ElementEdgesFrom(G, c1, later, student_misses, effective_min_misses, j) ==
  IF j > Len(later) \/ Len(G.nodes) < 0 THEN G
  ELSE LET co_miss == CoMiss(student_misses, c1, later[j])
       IN ElementEdgesFrom(IF ElementEdgeQualifies(co_miss, effective_min_misses)
                           THEN add_edge(G, c1, later[j], co_miss) ELSE G,
                           c1, later, student_misses, effective_min_misses, j + 1)

(* for i, c1 in enumerate(centrality_elements) *)
RECURSIVE ElementEdges(_, _, _, _, _)
ElementEdges(G, centrality_elements, student_misses, effective_min_misses, i) ==
  IF i > Len(centrality_elements) \/ Len(G.nodes) < 0 THEN G
  ELSE ElementEdges(ElementEdgesFrom(G, centrality_elements[i],
                                     Rest(centrality_elements, i), student_misses,
                                     effective_min_misses, 1),
                    centrality_elements, student_misses, effective_min_misses, i + 1)

(* [e for e in group_elements if e in centrality_elements] *)
GroupOverlap(group_elements, centrality_elements) ==
  SelectSeq(group_elements, LAMBDA e : IsIn(e, centrality_elements))

(* GROUPS[g] *)
GroupElements(groups, g) == groups[CHOOSE k \in 1..Len(groups) : groups[k][1] = g][2]

(* Domain level: a node per group that overlaps the analysed elements,     *)
(* with the number of missed (row, element) cells of the group             *)
RECURSIVE DomainNodes(_, _, _, _, _)
DomainNodes(G, groups, centrality_elements, cohort_misses, i) ==
  IF i > Len(groups) \/ Len(G.nodes) < 0 THEN G
  ELSE LET group_overlap == GroupOverlap(groups[i][2], centrality_elements)
           miss_count ==
             Cardinality({ke \in (1..Len(cohort_misses)) \X Range(group_overlap) :
                            cohort_misses[ke[1]][ke[2]]})
       IN DomainNodes(IF Len(group_overlap) > 0
                      THEN add_node(G, groups[i][1], miss_count) ELSE G,
                      groups, centrality_elements, cohort_misses, i + 1)

(* co_miss += (student_misses[e1] & student_misses[e2]).sum(), for e1 in   *)
(* g1_elements, for e2 in g2_elements                                      *)
DomainCoMiss(student_misses, g1_elements, g2_elements) ==
  SumSeq([a \in 1..Len(g1_elements) |->
            SumSeq([b \in 1..Len(g2_elements) |->
                      CoMiss(student_misses, g1_elements[a], g2_elements[b])], 1)], 1)

(* the threshold not scaled by the number of element pairs *)
DomainEdgeUnscaled(co_miss, effective_min_misses, n1, n2) == co_miss >= effective_min_misses

(* co_miss >= effective_min_misses * len(g1_elements) * len(g2_elements) / 4 *)
DomainEdgeQualifies(co_miss, effective_min_misses, n1, n2) ==
  4 * co_miss >= effective_min_misses * n1 * n2

RECURSIVE DomainEdges(_, _, _, _, _, _, _)
DomainEdges(G, pairs, groups, centrality_elements, student_misses, effective_min_misses, k) ==
  IF k > Len(pairs) \/ Len(G.nodes) < 0 THEN G
  ELSE LET g1_elements == GroupOverlap(GroupElements(groups, pairs[k][1]),
                                       centrality_elements)
           g2_elements == GroupOverlap(GroupElements(groups, pairs[k][2]),
                                       centrality_elements)
           co_miss == DomainCoMiss(student_misses, g1_elements, g2_elements)
       IN DomainEdges(IF /\ Len(g1_elements) > 0 /\ Len(g2_elements) > 0
                         /\ DomainEdgeQualifies(co_miss, effective_min_misses,
                                                Len(g1_elements), Len(g2_elements))
                      THEN add_edge(G, pairs[k][1], pairs[k][2], co_miss) ELSE G,
                      pairs, groups, centrality_elements, student_misses,
                      effective_min_misses, k + 1)

(* G_central: built only from a non-empty table and element list; the      *)
(* tables analysed always have the student_id column, so the edges come    *)
(* from the per-student misses                                             *)
BuildMissGraph(data, groups, centrality_elements, aggregate_mode, miss_threshold, effective_min_misses) ==
  LET cohort_misses == CohortMisses(data, centrality_elements, miss_threshold)
      student_misses == StudentMisses(cohort_misses, centrality_elements)
  IN IF ~(Len(cohort_misses) > 0 /\ Len(centrality_elements) > 0) THEN EmptyGraph
     ELSE IF aggregate_mode = "Domain"
     THEN LET N == DomainNodes(EmptyGraph, groups, centrality_elements, cohort_misses, 1)
          IN DomainEdges(N, PairsVisited(N.nodes), groups, centrality_elements,
                         student_misses, effective_min_misses, 1)
     ELSE LET N == ElementNodes(EmptyGraph, centrality_elements, cohort_misses, 1)
          IN ElementEdges(N, centrality_elements, student_misses, effective_min_misses, 1)

(* ------------- plot_network_co_missed_criteria (the script) ------------ *)
(* the number of rows in which both elements are below the threshold *)
RowCoMiss(table, c1, c2, miss_threshold) ==
  Cardinality({i \in 1..Len(table) :
                 table[i][c1] < miss_threshold /\ table[i][c2] < miss_threshold})

(* the graph of plot_network_co_missed_criteria(df, out_path,              *)
(* miss_threshold): a node per element, an edge for each pair of elements  *)
(* with a co-miss count above 0.  A table without rows comes from          *)
(* pd.DataFrame([]) and has no column, and misses[c] raises KeyError       *)
plot_network_co_missed_criteria(table, miss_threshold) ==
  LET n == Len(ELEMENTS)
      counted == {p \in (1..n) \X (1..n) :
                    /\ p[1] < p[2]
                    /\ RowCoMiss(table, ELEMENTS[p[1]], ELEMENTS[p[2]], miss_threshold) > 0}
      edges == {<<ELEMENTS[p[1]], ELEMENTS[p[2]]>> : p \in counted}
                 \cup {<<ELEMENTS[p[2]], ELEMENTS[p[1]]>> : p \in counted}
  IN IF Len(table) = 0 THEN [made |-> TRUE, raised |-> TRUE, graph |-> EmptyGraph]
     ELSE [made |-> TRUE, raised |-> FALSE,
           graph |-> [nodes |-> ELEMENTS, miss_count |-> EmptyDict,
                      adj |-> [e \in edges |-> RowCoMiss(table, e[1], e[2], miss_threshold)]]]

(* ------------------- Faculty View: the centrality scores --------------- *)
(* centrality values are in thousandths, distances too *)
Unreachable == 100000000

(* nx.degree_centrality(G): the degree over n - 1, 1 for a graph of one    *)
(* node                                                                    *)
Degree(graph, u) == Cardinality({e \in DOMAIN graph.adj : e[1] = u})

degree_centrality(graph) ==
  LET n == Len(graph.nodes)
  IN [i \in 1..n |-> IF n <= 1 THEN 1000
                     ELSE (Degree(graph, graph.nodes[i]) * 1000) \div (n - 1)]

(* nx.is_weighted(G): some edge, and every edge with a weight (add_edge    *)
(* always gives one)                                                       *)
is_weighted(graph) == HasEdges(graph)

(* max([d['weight'] for u, v, d in G_weighted.edges(data=True)]) *)
MaxWeight(graph) ==
  CHOOSE w \in {graph.adj[e] : e \in DOMAIN graph.adj} :
    \A e \in DOMAIN graph.adj : graph.adj[e] <= w

(* the matrices below are sequences of n * n entries, entry (i, j) at      *)
(* (i - 1) * n + j                                                         *)
At(n, i, j) == (i - 1) * n + j

(* d['distance'] = max_weight / d['weight'] for an edge of the weighted    *)
(* copy, 1 for an edge of a graph without weights                          *)
DirectDistances(graph) ==
  LET n == Len(graph.nodes)
      max_weight == IF is_weighted(graph) THEN MaxWeight(graph) ELSE 1
      entry(i, j) ==
        IF i = j THEN 0
        ELSE IF <<graph.nodes[i], graph.nodes[j]>> \in DOMAIN graph.adj
        THEN IF is_weighted(graph)
             THEN (max_weight * 1000) \div graph.adj[<<graph.nodes[i], graph.nodes[j]>>]
             ELSE 1000
        ELSE Unreachable
  IN SubSeq([p \in 1..(n * n) |-> entry(((p - 1) \div n) + 1, ((p - 1) % n) + 1)], 1, n * n)

(* the lengths of the shortest paths between all pairs of nodes, as        *)
(* Dijkstra's algorithm finds them from each source                        *)
RECURSIVE ShortestPathLengths(_, _, _)
ShortestPathLengths(D, n, k) ==
  IF k > n \/ Len(D) < 0 THEN D
  ELSE ShortestPathLengths(
         SubSeq([p \in 1..(n * n) |->
                   LET i == ((p - 1) \div n) + 1
                       j == ((p - 1) % n) + 1
                   IN Min(D[p], D[At(n, i, k)] + D[At(n, k, j)])], 1, n * n),
         n, k + 1)

(* sigma: the number of shortest paths between each pair: those to a node  *)
(* are those to its predecessors on shortest paths, summed; found by       *)
(* repeating the sum until no count changes                                *)
RECURSIVE PathCounts(_, _, _, _)
PathCounts(sigma, W, D, n) ==
  LET pred(i, j, u) == /\ u # j
                       /\ W[At(n, u, j)] < Unreachable
                       /\ D[At(n, i, u)] + W[At(n, u, j)] = D[At(n, i, j)]
      next == SubSeq([p \in 1..(n * n) |->
                        LET i == ((p - 1) \div n) + 1
                            j == ((p - 1) % n) + 1
                        IN IF i = j THEN 1
                           ELSE IF D[p] >= Unreachable THEN 0
                           ELSE SumSeq([u \in 1..n |-> IF pred(i, j, u)
                                                       THEN sigma[At(n, i, u)] ELSE 0], 1)],
                     1, n * n)
  IN IF next = sigma THEN sigma ELSE PathCounts(next, W, D, n)

(* nx.betweenness_centrality(G, weight): for each node the fraction of the *)
(* shortest paths between the other pairs that pass through it, summed     *)
(* over the pairs and scaled by 2 / ((n - 1)(n - 2)) when n > 2            *)
betweenness_centrality(D, sigma, n) ==
  LET through(v, s, t) ==
        IF /\ D[At(n, s, t)] < Unreachable
           /\ D[At(n, s, v)] + D[At(n, v, t)] = D[At(n, s, t)]
        THEN (1000 * sigma[At(n, s, v)] * sigma[At(n, v, t)]) \div sigma[At(n, s, t)]
        ELSE 0
      total(v) ==
        SumSeq([s \in 1..n |->
                  SumSeq([t \in 1..n |->
                            IF s < t /\ s # v /\ t # v THEN through(v, s, t) ELSE 0], 1)], 1)
  IN [v \in 1..n |-> IF n > 2 THEN (2 * total(v)) \div ((n - 1) * (n - 2)) ELSE total(v)]

(* nx.closeness_centrality(G, distance): (r - 1) / totsp for the r nodes   *)
(* reached, times (r - 1) / (n - 1), and 0 for a node that reaches none    *)
closeness_centrality(D, n) ==
  LET reached(u) == {t \in 1..n : D[At(n, u, t)] < Unreachable}
      totsp(u) == SumSeq([t \in 1..n |-> IF D[At(n, u, t)] < Unreachable
                                         THEN D[At(n, u, t)] ELSE 0], 1)
      r(u) == Cardinality(reached(u))
  IN [u \in 1..n |->
        IF totsp(u) > 0 /\ n > 1
        THEN ((((r(u) - 1) * 1000000) \div totsp(u)) * (r(u) - 1)) \div (n - 1)
        ELSE 0]

SeqMax(f) == CHOOSE x \in Range(f) : \A y \in Range(f) : y <= x

SeqMin(f) == CHOOSE x \in Range(f) : \A y \in Range(f) : x <= y

(* np.random.uniform(-1.5, 1.5, n): n draws of the numpy stream, in        *)
(* thousandths of a point                                                  *)
RECURSIVE NpUniformSeq(_, _, _, _, _)
NpUniformSeq(st, a, b, n, acc) ==
  IF n = 0 \/ ~Evaluated(st) \/ Len(acc) < 0 THEN [st |-> st, v |-> acc]
  ELSE LET d == Uniform(st, a, b)
       IN NpUniformSeq(d.st, a, b, n - 1, Append(acc, d.v))

(* the scaling without the final clip *)
ScaleColumnNoClip(st, column) ==
  LET min_val == SeqMin(column)
      max_val == SeqMax(column)
      jitter == NpUniformSeq(st, -1500, 1500, Len(column), << >>)
  IN IF Len(column) > 0 /\ max_val > 0
     THEN [st |-> jitter.st,
           v |-> [i \in 1..Len(column) |->
                    (IF max_val = min_val THEN 0
                     ELSE ((column[i] - min_val) * 100000) \div (max_val - min_val))
                    + jitter.v[i]]]
     ELSE [st |-> st, v |-> column]

(* one metric column: when its largest value is above 0 it is scaled to    *)
(* 0-100 (the 1e-10 of the denominator makes a column of equal values all  *)
(* 0), a jitter is added and the result is clipped to 0..100; values in    *)
(* thousandths of a point                                                  *)
ScaleColumn(st, column) ==
  LET min_val == SeqMin(column)
      max_val == SeqMax(column)
      jitter == NpUniformSeq(st, -1500, 1500, Len(column), << >>)
  IN IF Len(column) > 0 /\ max_val > 0
     THEN [st |-> jitter.st,
           v |-> [i \in 1..Len(column) |->
                    Clamp(0, 100000,
                          (IF max_val = min_val THEN 0
                           ELSE ((column[i] - min_val) * 100000) \div (max_val - min_val))
                          + jitter.v[i])]]
     ELSE [st |-> st, v |-> column]

(* centrality_data: one record per key of degree_centrality, the columns   *)
(* scaled in the order Degree, Betweenness, Closeness                      *)
CentralityData(st, graph) ==
  LET n == Len(graph.nodes)
      W == DirectDistances(graph)
      D == ShortestPathLengths(W, n, 1)
      sigma == PathCounts(SubSeq([p \in 1..(n * n) |-> 0], 1, n * n), W, D, n)
      degree == ScaleColumn(st, degree_centrality(graph))
      betweenness == ScaleColumn(degree.st, betweenness_centrality(D, sigma, n))
      closeness == ScaleColumn(betweenness.st, closeness_centrality(D, n))
  IN [st |-> closeness.st,
      v |-> [i \in 1..n |-> [Element |-> graph.nodes[i], Degree |-> degree.v[i],
                             Betweenness |-> betweenness.v[i],
                             Closeness |-> closeness.v[i]]]]

(* ------------------- Faculty View: the correlations -------------------- *)
(* floats that may be nan: v is the value, in thousandths *)
NaN == [nan |-> TRUE, v |-> 0]

Float(x) == [nan |-> FALSE, v |-> x]

FloatLessOrNaN(a, max) == a.nan \/ a.v < max

(* a < max: false when a is nan *)
FloatLess(a, max) == ~a.nan /\ a.v < max

Abs(x) == IF x >= 0 THEN x ELSE -x

RECURSIVE ISqrtBetween(_, _, _)
ISqrtBetween(n, lo, hi) ==
  IF lo >= hi THEN lo
  ELSE LET mid == (lo + hi + 1) \div 2
       IN IF mid * mid <= n THEN ISqrtBetween(n, mid, hi) ELSE ISqrtBetween(n, lo, mid - 1)

(* the integer square root *)
ISqrt(n) == ISqrtBetween(n, 0, 46340)

(* the two-sided p-value of r (thousandths) for n paired observations, in  *)
(* thousandths: the closed form of the t distribution with n - 2 degrees   *)
(* of freedom for an even n,                                               *)
(*   p = 1 - |r| * sum_{k=0}^{(n-4)/2} C(2k,k)/4^k * (1 - r^2)^k           *)
(* with the sum kept in millionths                                         *)
RECURSIVE PValueSum(_, _, _, _)
PValueSum(q, term, k, last) ==
  IF k > last THEN 0
  ELSE term + PValueSum(q, (((term \div 1000) * (q \div 1000)) * (2 * k + 1))
                             \div (2 * k + 2), k + 1, last)

PValue(r, n) ==
  CASE n % 2 = 0 ->
    LET sum == PValueSum(1000000 - r * r, 1000000, 0, (n - 4) \div 2)
        p == 1000 - (Abs(r) * (sum \div 1000)) \div 1000
    IN IF p < 0 THEN 0 ELSE p

(* stats.pearsonr(x, y): r and its p-value; both are nan when a column is  *)
(* constant                                                                *)
Pearson(x, y) ==
  LET n == Len(x)
      sx == SumSeq(x, 1)
      sy == SumSeq(y, 1)
      dx == n * SumSeq([i \in 1..n |-> x[i] * x[i]], 1) - sx * sx
      dy == n * SumSeq([i \in 1..n |-> y[i] * y[i]], 1) - sy * sy
      num == n * SumSeq([i \in 1..n |-> x[i] * y[i]], 1) - sx * sy
      size == (Abs(num) * 1000) \div ISqrt(dx * dy)
      r == IF num >= 0 THEN size ELSE -size
  IN IF dx = 0 \/ dy = 0 THEN [corr |-> NaN, p_value |-> NaN]
     ELSE [corr |-> Float(r), p_value |-> Float(PValue(r, n))]

(* np.arctanh and np.tanh, thousandths, by linear interpolation between    *)
(* the knots r = 0, 0.1, ..., 0.9, 0.95, 0.99, 0.999                       *)
FisherKnots == <<0, 100, 200, 300, 400, 500, 600, 700, 800, 900, 950, 990, 999>>
FisherValues == <<0, 100, 203, 310, 424, 549, 693, 867, 1099, 1472, 1832, 2647, 3800>>

Interpolate(xs, ys, x) ==
  LET k == CHOOSE i \in 1..(Len(xs) - 1) : xs[i] <= x /\ x <= xs[i + 1]
  IN ys[k] + ((x - xs[k]) * (ys[k + 1] - ys[k])) \div (xs[k + 1] - xs[k])

Arctanh(r) ==
  IF r >= 0 THEN Interpolate(FisherKnots, FisherValues, r)
  ELSE -Interpolate(FisherKnots, FisherValues, -r)

Tanh(z) ==
  LET size == IF Abs(z) >= 3800 THEN 999 ELSE Interpolate(FisherValues, FisherKnots, Abs(z))
  IN IF z >= 0 THEN size ELSE -size

FisherBelowHalf(corr) == ~corr.nan /\ Abs(corr.v) < 500

(* if abs(corr) < 0.999: false for a nan *)
FisherApplies(corr) == ~corr.nan /\ Abs(corr.v) < 999

(* the 95% interval of the Fisher z-transformation, or the degenerate one  *)
(* when abs(corr) < 0.999 is false                                         *)
ConfidenceInterval(corr, n) ==
  IF FisherApplies(corr)
  THEN LET z == Arctanh(corr.v)
           ci == (1960 * 1000) \div ISqrt((n - 3) * 1000000)
       IN [lower |-> Float(Tanh(z - ci)), upper |-> Float(Tanh(z + ci))]
  ELSE [lower |-> corr, upper |-> corr]

EnoughPointsFive(n) == n > 4

(* if len(valid_data) > 3: need at least 4 data points *)
EnoughPoints(n) == n > 3

(* the loop starts with nothing analysed and nothing listed *)
NoPairs == [analysed |-> << >>, pairs |-> << >>]

(* one pair of elements: analysed when more than 3 rows hold both values   *)
(* (the tables have no missing value, so dropna keeps every row), and      *)
(* appended when its p-value is below max_p_value; acc.analysed records    *)
(* the pairs stats.pearsonr was called for                                 *)
AnalysePair(acc, data, elem1, elem2, max_p_value) ==
  LET n == Len(data)
      res == Pearson([i \in 1..n |-> data[i][elem1]], [i \in 1..n |-> data[i][elem2]])
      interval == ConfidenceInterval(res.corr, n)
      record == [elem1 |-> elem1, elem2 |-> elem2, Correlation |-> res.corr,
                 P_Value |-> res.p_value, CI_Lower |-> interval.lower,
                 CI_Upper |-> interval.upper, N |-> n]
  IN IF EnoughPoints(n)
     THEN [analysed |-> Append(acc.analysed, record),
           pairs |-> IF FloatLess(res.p_value, max_p_value)
                     THEN Append(acc.pairs, record) ELSE acc.pairs]
     ELSE acc

(* for elem2 in corr_net_elements[i+1:] *)
RECURSIVE CorrelationPairsFrom(_, _, _, _, _, _)
CorrelationPairsFrom(acc, data, elem1, later, max_p_value, j) ==
  IF j > Len(later) \/ Len(acc.pairs) < 0 \/ Len(acc.analysed) < 0 THEN acc
  ELSE CorrelationPairsFrom(AnalysePair(acc, data, elem1, later[j], max_p_value),
                            data, elem1, later, max_p_value, j + 1)

(* for i, elem1 in enumerate(corr_net_elements) *)
RECURSIVE CorrelationPairs(_, _, _, _, _)
CorrelationPairs(acc, data, corr_net_elements, max_p_value, i) ==
  IF i > Len(corr_net_elements) \/ Len(acc.pairs) < 0 \/ Len(acc.analysed) < 0 THEN acc
  ELSE CorrelationPairs(CorrelationPairsFrom(acc, data, corr_net_elements[i],
                                             Rest(corr_net_elements, i), max_p_value, 1),
                        data, corr_net_elements, max_p_value, i + 1)

(* the Correlation Plot tab: it exists only when the miss graph has an     *)
(* edge, and lists pairs only for a non-empty table                        *)
CorrelationTab(graph, data, groups, v) ==
  IF HasEdges(graph) /\ Len(data) > 0
  THEN CorrelationPairs(NoPairs, data, MetricElements(groups, v.corr_net_metric),
                        v.max_p_value, 1)
  ELSE NoPairs

(* ------------------- generate_ai_feedback_context ---------------------- *)
(* A score dict is the sequence of its (key, value) pairs in insertion     *)
(* order; domain, Socratic and speech scores are in thousandths            *)
DictHas(dict, k) == \E i \in 1..Len(dict) : dict[i][1] = k

(* dict.get(k, default) *)
DictGet(dict, k, default) ==
  IF DictHas(dict, k) THEN dict[CHOOSE i \in 1..Len(dict) : dict[i][1] = k][2] ELSE default

(* list(dict.values()) *)
DictValues(dict) == [i \in 1..Len(dict) |-> dict[i][2]]

(* round(x, ndigits) of x = raw / unit of the kept digit, ties to even *)
RoundTo(raw, unit) ==
  LET q == raw \div unit
      r == raw % unit
  IN IF 2 * r > unit THEN q + 1
     ELSE IF 2 * r < unit THEN q
     ELSE IF q % 2 = 0 THEN q ELSE q + 1

(* the values in ascending order *)
RECURSIVE SortedValues(_)
SortedValues(values) ==
  IF Len(values) = 0 THEN << >>
  ELSE LET lo == SeqMin(values)
           i == CHOOSE j \in 1..Len(values) :
                  values[j] = lo /\ \A k \in 1..(j - 1) : values[k] # lo
       IN <<lo>> \o SortedValues(SubSeq(values, 1, i - 1) \o
                                 SubSeq(values, i + 1, Len(values)))

(* np.median, in thousandths *)
Median(values) ==
  LET s == SortedValues(values)
      n == Len(s)
  IN IF n % 2 = 1 THEN s[(n + 1) \div 2] ELSE (s[n \div 2] + s[n \div 2 + 1]) \div 2

(* np.var: the mean squared deviation from the mean, in millionths *)
Variance(values) ==
  LET n == Len(values)
      total == SumSeq(values, 1)
      mean == total \div n
  IN SumSeq([i \in 1..n |-> (values[i] - mean) * (values[i] - mean)], 1) \div n

(* the seven descriptive statistics of a non-empty list, each rounded to   *)
(* two decimals (hundredths); an empty list leaves the entry {}            *)
DescriptiveStatistics(values) ==
  IF Len(values) = 0 THEN [empty |-> TRUE]
  ELSE [empty |-> FALSE,
        mean |-> RoundTo(SumSeq(values, 1) \div Len(values), 10),
        median |-> RoundTo(Median(values), 10),
        std |-> RoundTo(ISqrt(Variance(values)), 10),
        variance |-> RoundTo(Variance(values), 10000),
        min |-> RoundTo(SeqMin(values), 10),
        max |-> RoundTo(SeqMax(values), 10),
        range |-> RoundTo(SeqMax(values) - SeqMin(values), 10)]

(* domain.replace("PRO_0", "").replace("_", " ").replace("1 ", "")...      *)
(* .replace("5 ", ""), on the keys of GROUPS; a key without these parts    *)
(* is left as it is                                                        *)
domain_clean(domain) ==
  CASE domain = "PRO_01_Question_Formulation" -> "Question Formulation"
    [] domain = "PRO_02_Response_Quality" -> "Response Quality"
    [] domain = "PRO_03_Critical_Thinking" -> "Critical Thinking"
    [] domain = "PRO_04_Humility_Partnership" -> "Humility Partnership"
    [] domain = "PRO_05_Reflective_Practice" -> "Reflective Practice"
    [] OTHER -> domain

(* the proficiency level of a domain score *)
ProficiencyLevel(score) ==
  IF score >= 3500 THEN "Advanced"
  ELSE IF score >= 2500 THEN "Proficient"
  ELSE IF score >= 1500 THEN "Emerging"
  ELSE "Developing"

(* context["domain_performance"]: one entry per domain, score to a tenth *)
DomainPerformance(domain_scores) ==
  [i \in 1..Len(domain_scores) |->
     [domain |-> domain_clean(domain_scores[i][1]),
      score |-> Round1(domain_scores[i][2]),
      level |-> ProficiencyLevel(domain_scores[i][2])]]

(* if score >= 3.0: a strength *)
Strengths(domain_scores) ==
  LET is == SelectSeq([i \in 1..Len(domain_scores) |-> i],
                      LAMBDA i : domain_scores[i][2] >= 3000)
  IN [k \in 1..Len(is) |->
        [domain |-> domain_clean(domain_scores[is[k]][1]),
         score |-> Round1(domain_scores[is[k]][2]),
         level |-> ProficiencyLevel(domain_scores[is[k]][2])]]

(* elif score < 2.5: a growth area *)
GrowthAreas(domain_scores) ==
  LET is == SelectSeq([i \in 1..Len(domain_scores) |-> i],
                      LAMBDA i : domain_scores[i][2] < 2500)
  IN [k \in 1..Len(is) |->
        [domain |-> domain_clean(domain_scores[is[k]][1]),
         score |-> Round1(domain_scores[is[k]][2])]]

(* list.sort(key=lambda x: x["score"]): stable, ascending *)
RECURSIVE SortByScore(_)
SortByScore(list) ==
  IF Len(list) = 0 THEN << >>
  ELSE LET i == CHOOSE j \in 1..Len(list) :
                  /\ \A k \in 1..Len(list) : list[j].score <= list[k].score
                  /\ \A k \in 1..(j - 1) : list[k].score # list[j].score
       IN <<list[i]>> \o SortByScore(SubSeq(list, 1, i - 1) \o
                                     SubSeq(list, i + 1, Len(list)))

(* list.sort(key=..., reverse=True): descending, equal scores keep their   *)
(* order                                                                   *)
RECURSIVE SortByScoreReverse(_)
SortByScoreReverse(list) ==
  IF Len(list) = 0 THEN << >>
  ELSE LET i == CHOOSE j \in 1..Len(list) :
                  /\ \A k \in 1..Len(list) : list[j].score >= list[k].score
                  /\ \A k \in 1..(j - 1) : list[k].score # list[j].score
       IN <<list[i]>> \o SortByScoreReverse(SubSeq(list, 1, i - 1) \o
                                            SubSeq(list, i + 1, Len(list)))

(* socratic_components: the metric behind each component *)
socratic_components ==
  << <<"WONDER", "Question Depth">>, <<"REFLECT", "Response Completeness">>,
     <<"REFINE", "Assumption Recognition">>, <<"RESTATE", "Plan Flexibility">>,
     <<"REPEAT", "In-Encounter Adjustment">> >>

(* context["socratic_performance"]: the components whose metric is a key   *)
(* of socratic_scores                                                      *)
SocraticPerformance(socratic_scores) ==
  LET is == SelectSeq([i \in 1..Len(socratic_components) |-> i],
                      LAMBDA i : DictHas(socratic_scores, socratic_components[i][2]))
  IN [k \in 1..Len(is) |->
        LET avg_score == DictGet(socratic_scores, socratic_components[is[k]][2], 0)
        IN [component |-> socratic_components[is[k]][1],
            score |-> Round1(avg_score),
            interpretation |-> IF avg_score >= 3500 THEN "strong"
                               ELSE IF avg_score < 2500 THEN "developing"
                               ELSE "adequate"]]

(* context["speech_performance"] *)
SpeechPerformance(speech_scores) ==
  [i \in 1..Len(speech_scores) |->
     [metric |-> speech_scores[i][1],
      score |-> Round1(speech_scores[i][2]),
      quality |-> IF speech_scores[i][2] >= 8500 THEN "excellent"
                  ELSE IF speech_scores[i][2] >= 7000 THEN "good"
                  ELSE IF speech_scores[i][2] >= 5500 THEN "adequate"
                  ELSE "needs attention"]]

(* avg_domain > avg_socratic * 0.8, avg_socratic being the mean of the     *)
(* rounded component scores (tenths); the mean of an empty list is nan and *)
(* the comparison is then false                                            *)
Pattern(domain_scores, socratic_performance) ==
  LET nd == Len(domain_scores)
      ns == Len(socratic_performance)
      sd == SumSeq(DictValues(domain_scores), 1)
      ss == SumSeq([i \in 1..ns |-> socratic_performance[i].score], 1)
  IN IF nd > 0 /\ ns > 0 /\ sd * ns > 80 * ss * nd THEN "alignment" ELSE "gap"

(* behaviors: "Question Formulation" is compared with the strength dicts   *)
(* themselves and so is never found among them; the growth areas are       *)
(* searched by domain                                                      *)
ObservedBehaviors(domain_scores, growth_areas) ==
  LET response_score == DictGet(domain_scores, "PRO_02_Response_Quality", 0)
      critical_score == DictGet(domain_scores, "PRO_03_Critical_Thinking", 0)
      partnership_score == DictGet(domain_scores, "PRO_04_Humility_Partnership", 0)
  IN (IF \E i \in 1..Len(growth_areas) : growth_areas[i].domain = "Question Formulation"
      THEN << <<"Question Formulation", "closed-ended">> >> ELSE << >>)
     \o << <<"Response Quality",
             IF response_score >= 3000 THEN "reflective pausing" ELSE "interrupted">> >>
     \o (IF critical_score >= 3000 THEN << <<"Critical Thinking", "verbalized">> >>
         ELSE << >>)
     \o (IF partnership_score >= 3000 THEN << <<"Partnership", "partnership language">> >>
         ELSE IF partnership_score < 2500 THEN << <<"Partnership", "directive">> >>
         ELSE << >>)

(* the entries of a list whose condition holds, in order *)
Kept(entries) ==
  LET is == SelectSeq([i \in 1..Len(entries) |-> i], LAMBDA i : entries[i][1])
  IN [k \in 1..Len(is) |-> entries[is[k]][2]]

(* np.mean(list(speech_scores.values())) >= bound; nan compares false *)
MeanAtLeast(values, bound) ==
  Len(values) > 0 /\ SumSeq(values, 1) >= bound * Len(values)

(* generate_what_went_well: the categories with the details of each *)
generate_what_went_well(domain_scores, socratic_scores, speech_scores) ==
  LET speech_details ==
        Kept(<< <<DictGet(speech_scores, "volume", 0) >= 7000, "volume">>,
                <<DictGet(speech_scores, "pace", 0) >= 7000, "pace">>,
                <<DictGet(speech_scores, "pitch", 0) >= 7000, "pitch">>,
                <<DictGet(speech_scores, "pauses", 0) >= 7000, "pauses">> >>)
      wonder_score == DictGet(socratic_scores, "Question Depth", 0)
      reflect_score == DictGet(socratic_scores, "Response Completeness", 0)
      refine_score == DictGet(socratic_scores, "Assumption Recognition", 0)
      socratic_details ==
        Kept(<< <<wonder_score >= 3000, "curiosity">>,
                <<reflect_score >= 3000, "reflective listening">>,
                <<refine_score >= 3000, "refined">> >>)
      critical_score == DictGet(domain_scores, "PRO_03_Critical_Thinking", 0)
      partnership_score == DictGet(domain_scores, "PRO_04_Humility_Partnership", 0)
      clinical_details ==
        Kept(<< <<critical_score >= 2500, "clinical reasoning">>,
                <<partnership_score >= 2500, "humility and partnership">>,
                <<partnership_score >= 2500, "validated concerns">> >>)
      question_score == DictGet(domain_scores, "PRO_01_Question_Formulation", 0)
      response_score == DictGet(domain_scores, "PRO_02_Response_Quality", 0)
      communication_details ==
        Kept(<< <<question_score >= 2500, "accessible language">>,
                <<response_score >= 2500, "empathic acknowledgment">>,
                <<TRUE, "patient agency">> >>)
  IN Kept(<< <<MeanAtLeast(DictValues(speech_scores), 7000) /\ Len(speech_details) > 0,
               <<"Speech Quality and Delivery", speech_details>> >>,
             <<(wonder_score >= 3000 \/ reflect_score >= 3000) /\ Len(socratic_details) > 0,
               <<"Socratic Dialogue", socratic_details>> >>,
             <<(critical_score >= 2500 \/ partnership_score >= 2500)
                 /\ Len(clinical_details) > 0,
               <<"Clinical Reasoning and Shared Decision Making", clinical_details>> >>,
             <<question_score >= 2500 \/ response_score >= 2500,
               <<"Patient-Centered Communication", communication_details>> >> >>)

(* generate_areas_for_improvement; avg_speech < 8.5 is false for the nan   *)
(* of an empty speech dict                                                 *)
generate_areas_for_improvement(domain_scores, socratic_scores, speech_scores) ==
  LET values == DictValues(speech_scores)
      speech_improvements ==
        Kept(<< <<DictGet(speech_scores, "pace", 0) < 8500, "slower delivery">>,
                <<DictGet(speech_scores, "pitch", 0) < 8500, "pitch variation">> >>)
  IN Kept(<< <<Len(values) > 0 /\ SumSeq(values, 1) < 8500 * Len(values)
                 /\ Len(speech_improvements) > 0,
               <<"Speech Quality and Delivery", speech_improvements>> >>,
             <<DictGet(domain_scores, "PRO_05_Reflective_Practice", 0) < 3000,
               <<"Reflective Practice and Self-Awareness", << >> >> >>,
             <<DictGet(domain_scores, "PRO_03_Critical_Thinking", 0) < 3500,
               <<"Clinical Reasoning Transparency", << >> >> >>,
             <<DictGet(domain_scores, "PRO_01_Question_Formulation", 0) < 3000,
               <<"Question Formulation", << >> >> >>,
             <<DictGet(domain_scores, "PRO_02_Response_Quality", 0) < 3000,
               <<"Active Listening and Response Quality", << >> >> >> >>)

(* Python integers are unbounded; a value that may pass 2^31 is kept as    *)
(* two 16-bit limbs, hi * 65536 + lo                                       *)
Limb == 65536

(* abs(hash(student_id)) of a hash value [neg, hi, lo]: the magnitude *)
AbsHash(h) == [hi |-> h.hi, lo |-> h.lo]

(* (seed + abs(hash(student_id)) + attempt) % (2**32 - 1); the sum is      *)
(* below 2 * (2**32 - 1) for the magnitudes drawn here, so the remainder   *)
(* is the sum or the sum less the modulus                                  *)
CombinedSeed(seed, h, attempt) ==
  LET low == seed + AbsHash(h).lo + attempt
      lo == low % Limb
      hi == AbsHash(h).hi + low \div Limb
  IN IF hi = Limb - 1 /\ lo = Limb - 1 THEN [hi |-> 0, lo |-> 0]
     ELSE IF hi < Limb THEN [hi |-> hi, lo |-> lo]
     ELSE [hi |-> (hi - Limb) + (lo + 1) \div Limb, lo |-> (lo + 1) % Limb]

(* random.seed(combined_seed), np.random.seed(combined_seed): the state is *)
(* a function of the seed alone                                            *)
SeedKey(c) == (c.hi * 31 + c.lo) % Modulus

(* a timestamp that takes a draw from the seeded stream *)
TimestampDrawn(st, attempt) == 20 + attempt + (Random(st).v % 2)

(* "timestamp": f"2025-11-{20 + attempt:02d}": the day *)
Timestamp(st, attempt) == 20 + attempt

(* generate_ai_feedback_context(student_id, attempt, domain_scores,        *)
(* socratic_scores, speech_scores, encounter_completeness, seed) in a      *)
(* process whose str hash of student_id is h: the context, combined_seed   *)
(* and the two process-wide streams afterwards                             *)
generate_ai_feedback_context(h, a) ==
  LET combined_seed == CombinedSeed(a.seed, h, a.attempt)
      st == RandSeed(SeedKey(combined_seed))
      np_st == NpRandSeed(SeedKey(combined_seed))
      socratic_performance == SocraticPerformance(a.socratic_scores)
      growth_areas == GrowthAreas(a.domain_scores)
  IN [st |-> st, np_st |-> np_st, combined_seed |-> combined_seed,
      context |->
        [student_id |-> a.student_id,
         attempt |-> a.attempt,
         timestamp |-> Timestamp(st, a.attempt),
         chart_data |-> [domain_scores |-> a.domain_scores,
                         socratic_scores |-> a.socratic_scores,
                         speech_scores |-> a.speech_scores],
         domain_performance |-> DomainPerformance(a.domain_scores),
         socratic_performance |-> socratic_performance,
         speech_performance |-> SpeechPerformance(a.speech_scores),
         encounter_completeness |-> a.encounter_completeness,
         descriptive_statistics |->
           [domain_scores |-> DescriptiveStatistics(DictValues(a.domain_scores)),
            socratic_scores |-> DescriptiveStatistics(DictValues(a.socratic_scores)),
            speech_scores |-> DescriptiveStatistics(DictValues(a.speech_scores))],
         top_strengths |-> SortByScoreReverse(Strengths(a.domain_scores)),
         growth_areas |-> SortByScore(growth_areas),
         patterns |-> <<Pattern(a.domain_scores, socratic_performance)>>,
         observed_behaviors |-> ObservedBehaviors(a.domain_scores, growth_areas),
         what_student_did_well |->
           generate_what_went_well(a.domain_scores, a.socratic_scores, a.speech_scores),
         areas_for_improvement |->
           generate_areas_for_improvement(a.domain_scores, a.socratic_scores,
                                          a.speech_scores)]]

(* ------------------------------- state --------------------------------- *)
VARIABLES
  rng,        \* state of the process-wide `random` stream
  np_rng,     \* state of the process-wide numpy stream
  draws,      \* draws other code took from `random` since the last generator call
  args,       \* n_students, n_attempts, seed the caller has set for generate_mock_data
  df,         \* table returned by the last generate_mock_data call
  call,       \* arguments of that call
  repeated,   \* the last step was a call with the arguments of the call before it, after draws
  soc_args,   \* n_students, seed, num_attempts set for generate_socratic_metrics
  soc_long,   \* tables returned by the last generate_socratic_metrics call
  soc_wide,
  soc_call,   \* arguments of that call
  students,   \* Faculty View: the student list of the app
  app_groups, \* the domain map (GROUPS) of the app instance
  view,       \* the values of the sidebar and tab widgets
  combined_cohort_data,  \* the rows the centrality section analyses
  centrality_elements,
  effective_min_misses,
  G,          \* G_central
  correlation_pairs,
  analysed_pairs,        \* the pairs stats.pearsonr was called for in the last run
  centrality_data,       \* the centrality table of the last run, << >> when none was made
  network_view,          \* what the centrality section showed: "tabs", "no_edges" or "none"
  reruns,                \* script runs of the session after the first
  plot_threshold,        \* the miss_threshold argument of the script's network plot
  G_plot,                \* what plot_network_co_missed_criteria made, NoCall before
  str_hash,              \* hash(student_id) of this process run, per student id
  ctx_call,              \* the last generate_ai_feedback_context call and what it returned
  ctx_prev,              \* the call before it
  workers                \* the two generate_mock_data calls that run in threads

scriptVars == <<rng, np_rng, draws, args, call, repeated, soc_args, soc_long, soc_wide,
                soc_call>>

appVars == <<students, app_groups, view, combined_cohort_data, centrality_elements,
             effective_min_misses, G, correlation_pairs, analysed_pairs, centrality_data,
             network_view, reruns, plot_threshold,
                 G_plot, str_hash, ctx_call, ctx_prev, workers>>

vars == <<scriptVars, df, appVars>>

(* the default seed and another one *)
Seeds == {RANDOM_SEED, RANDOM_SEED + 1}

(* num_attempts: a negative count, none, one, the default of 5 and the 8   *)
(* the slider allows                                                       *)
NumAttemptsChoices == {-1, 0, 1, 5, 8}

ArgChoices ==
  [made : {TRUE}, n_students : 1..MaxStudents, n_attempts : 1..MaxAttempts, seed : Seeds]

SocArgChoices ==
  [made : {TRUE}, n_students : 1..MaxStudents, seed : Seeds,
   num_attempts : NumAttemptsChoices]

NoCall == [made |-> FALSE]

(* no thread runs a generator call *)
NoWorkers == << >>

(* the hash of each student id in a process started with PYTHONHASHSEED=0  *)
DefaultStrHash == [s \in Range(StudentList(MaxStudents)) |-> [neg |-> FALSE, hi |-> 1, lo |-> 5]]

(* no feedback context was asked for and no generator call runs in a       *)
(* thread                                                                  *)
ContextIdle ==
  /\ str_hash = DefaultStrHash
  /\ ctx_call = NoCall
  /\ ctx_prev = NoCall
  /\ workers = NoWorkers

(* --miss-threshold of the script: default=70.0, in tenths *)
DefaultPlotThreshold == 700

(* the widget values of a new session: the first option of each selectbox  *)
(* and radio, the default of each slider (miss_threshold in tenths,        *)
(* max_p_value in thousandths)                                             *)
DefaultView ==
  [cohort_a |-> "Undergrad", cohort_b |-> "Graduate", time_window |-> "Attempts 1-5",
   aggregate_mode |-> "Domain", rubric_a |-> PROACTIVE_RUBRIC, rubric_b |-> "Socratic",
   selected_metric |-> "Overall", miss_threshold |-> 20, min_misses |-> 2,
   corr_net_metric |-> "Overall", max_p_value |-> 50]

(* the process starts with streams seeded from the environment, the        *)
(* arguments at their defaults and no table                                *)
Init ==
  /\ rng \in {RandSeed(x) : x \in 0..1}
  /\ np_rng = NpRandSeed(0)
  /\ draws = 0
  /\ args = [made |-> TRUE, n_students |-> 1, n_attempts |-> 1, seed |-> RANDOM_SEED]
  /\ df = << >>
  /\ call = NoCall
  /\ repeated = FALSE
  /\ soc_args = [made |-> TRUE, n_students |-> 1, seed |-> RANDOM_SEED, num_attempts |-> 5]
  /\ soc_long = << >>
  /\ soc_wide = << >>
  /\ soc_call = NoCall
  /\ students = << >>
  /\ app_groups = GROUPS
  /\ view = DefaultView
  /\ combined_cohort_data = << >>
  /\ centrality_elements = << >>
  /\ effective_min_misses = DefaultView.min_misses
  /\ G = EmptyGraph
  /\ correlation_pairs = << >>
  /\ analysed_pairs = << >>
  /\ centrality_data = << >>
  /\ network_view = "none"
  /\ reruns = 0
  /\ plot_threshold = DefaultPlotThreshold
  /\ G_plot = NoCall
  /\ ContextIdle

(* any other code of the process draws from the shared stream *)
DrawRandom ==
  /\ draws < MaxDraws
  /\ rng' = Random(rng).st
  /\ draws' = draws + 1
  /\ repeated' = FALSE
  /\ UNCHANGED <<np_rng, args, df, call, soc_args, soc_long, soc_wide, soc_call>>
  /\ UNCHANGED appVars

(* the caller (main's argument parser, the sidebar sliders) sets the       *)
(* number of students, the number of attempts and the seed                 *)
SetArgs ==
  /\ \E a \in ArgChoices : a # args /\ args' = a
  /\ repeated' = FALSE
  /\ UNCHANGED <<rng, np_rng, draws, df, call, soc_args, soc_long, soc_wide, soc_call>>
  /\ UNCHANGED appVars

(* df = generate_mock_data(students, attempts, seed) *)
CallGenerateMockData ==
  LET r == generate_mock_data(rng, StudentList(args.n_students),
                              AttemptList(args.n_attempts), args.seed, GROUPS)
  IN /\ rng' = r.st
     /\ np_rng' = NpRandSeed(args.seed)
     /\ df' = r.df
     /\ call' = args
     /\ repeated' = (call = args /\ draws > 0)
     /\ draws' = 0
     /\ UNCHANGED <<args, soc_args, soc_long, soc_wide, soc_call>>
     /\ UNCHANGED appVars

SetSocArgs ==
  /\ \E a \in SocArgChoices : a # soc_args /\ soc_args' = a
  /\ UNCHANGED <<rng, np_rng, draws, args, df, call, repeated, soc_long, soc_wide,
                 soc_call>>
  /\ UNCHANGED appVars

(* soc_long, soc_wide = generate_socratic_metrics(students, seed, num_attempts) *)
CallGenerateSocraticMetrics ==
  /\ \E r \in {generate_socratic_metrics(rng, StudentList(soc_args.n_students),
                                         soc_args.seed, soc_args.num_attempts)} :
        /\ rng' = r.st
        /\ soc_long' = r.df_long
        /\ soc_wide' = r.df_wide
  /\ np_rng' = NpRandSeed(soc_args.seed)
  /\ soc_call' = soc_args
  /\ draws' = 0
  /\ UNCHANGED <<args, df, call, repeated, soc_args>>
  /\ UNCHANGED appVars

Next == DrawRandom \/ SetArgs \/ CallGenerateMockData

Spec == Init /\ [][Next]_vars

NextAux == DrawRandom \/ SetSocArgs \/ CallGenerateSocraticMetrics

SpecAux == Init /\ [][NextAux]_vars

(* ------------------- the network plot of the script -------------------- *)
(* --miss-threshold values, tenths: below the scale, its ends, inside it,  *)
(* above it, and the default                                               *)
PlotThresholdChoices == {-10, 0, 20, 40, 45, DefaultPlotThreshold}

(* student and attempt lists that may be empty *)
MainArgChoices ==
  [made : {TRUE}, n_students : 0..MaxStudents, n_attempts : 0..MaxAttempts, seed : Seeds]

(* a table of generate_mock_data and a threshold, before the plot is made  *)
InitPlot ==
  \E a \in MainArgChoices, t \in PlotThresholdChoices :
    \E r \in {generate_mock_data(RandSeed(0), StudentList(a.n_students),
                                 AttemptList(a.n_attempts), a.seed, GROUPS)} :
      /\ rng = r.st
      /\ np_rng = NpRandSeed(a.seed)
      /\ draws = 0
      /\ args = a
      /\ df = r.df
      /\ call = a
      /\ repeated = FALSE
      /\ soc_args = [made |-> TRUE, n_students |-> 1, seed |-> RANDOM_SEED, num_attempts |-> 5]
      /\ soc_long = << >>
      /\ soc_wide = << >>
      /\ soc_call = NoCall
      /\ students = << >>
      /\ app_groups = GROUPS
      /\ view = DefaultView
      /\ combined_cohort_data = << >>
      /\ centrality_elements = << >>
      /\ effective_min_misses = DefaultView.min_misses
      /\ G = EmptyGraph
      /\ correlation_pairs = << >>
      /\ analysed_pairs = << >>
      /\ centrality_data = << >>
      /\ network_view = "none"
      /\ reruns = 0
      /\ plot_threshold = t
      /\ G_plot = NoCall
      /\ ContextIdle

(* plot_network_co_missed_criteria(df, out_path, miss_threshold) *)
CallPlotNetworkCoMissed ==
  /\ ~G_plot.made
  /\ G_plot' = plot_network_co_missed_criteria(df, plot_threshold)
  /\ UNCHANGED <<scriptVars, df, students, app_groups, view, combined_cohort_data,
                 centrality_elements, effective_min_misses, G, correlation_pairs,
                 analysed_pairs, centrality_data, network_view, reruns, plot_threshold,
                 str_hash, ctx_call, ctx_prev, workers>>

NextPlot == CallPlotNetworkCoMissed

SpecPlot == InitPlot /\ [][NextPlot]_vars

(* ------------------- Faculty View: the centrality section -------------- *)
(* the fewest students the sidebar slider allows *)
MinSliderStudents == 6

(* slider values tried: miss threshold in tenths, minimum co-miss count *)
MissThresholdChoices == {10, 15, 20}

MinMissesChoices == {1, 2, 5}

(* the cohort data and G_central of a script run under the widget values v *)
RerunGraph(v) ==
  LET data == CombinedCohortData(v, df, students)
      elements == MetricElements(app_groups, v.selected_metric)
      threshold == EffectiveMinMisses(elements, v.min_misses)
  IN /\ view' = v
     /\ combined_cohort_data' = data
     /\ centrality_elements' = elements
     /\ effective_min_misses' = threshold
     /\ G' = BuildMissGraph(data, app_groups, elements, v.aggregate_mode,
                            v.miss_threshold, threshold)

Rerun(v) ==
  /\ RerunGraph(v)
  /\ UNCHANGED <<scriptVars, df, students, app_groups, correlation_pairs, analysed_pairs,
                 centrality_data, network_view, reruns, plot_threshold,
                 G_plot, str_hash, ctx_call, ctx_prev, workers>>

(* the first run of an app instance, up to G_central: the table of         *)
(* get_data for the students and attempts of the sidebar, analysed under   *)
(* the default widget values                                               *)
FirstRun(groups) ==
  LET list == StudentList(MinSliderStudents)
      loaded == [made |-> TRUE, n_students |-> MinSliderStudents,
                 n_attempts |-> MaxAttempts, seed |-> RANDOM_SEED]
      r == generate_mock_data(RandSeed(0), list, AttemptList(MaxAttempts), RANDOM_SEED,
                              groups)
      data == CombinedCohortData(DefaultView, r.df, list)
      elements == MetricElements(groups, DefaultView.selected_metric)
      threshold == EffectiveMinMisses(elements, DefaultView.min_misses)
  IN /\ rng = r.st
     /\ draws = 0
     /\ args = loaded
     /\ df = r.df
     /\ call = loaded
     /\ repeated = FALSE
     /\ soc_args = [made |-> TRUE, n_students |-> MinSliderStudents,
                    seed |-> RANDOM_SEED, num_attempts |-> MaxAttempts]
     /\ soc_long = << >>
     /\ soc_wide = << >>
     /\ soc_call = NoCall
     /\ students = list
     /\ app_groups = groups
     /\ view = DefaultView
     /\ combined_cohort_data = data
     /\ centrality_elements = elements
     /\ effective_min_misses = threshold
     /\ G = BuildMissGraph(data, groups, elements, DefaultView.aggregate_mode,
                           DefaultView.miss_threshold, threshold)
     /\ correlation_pairs = << >>
     /\ analysed_pairs = << >>
     /\ reruns = 0
     /\ plot_threshold = DefaultPlotThreshold
     /\ G_plot = NoCall
     /\ ContextIdle

InitGraph ==
  \E groups \in GroupMaps :
    /\ FirstRun(groups)
    /\ np_rng = NpRandSeed(RANDOM_SEED)
    /\ centrality_data = << >>
    /\ network_view = "none"

(* a widget change reruns the script; the table comes from the cache *)
SetCohortA ==
  \E c \in {"Undergrad", "Graduate", "All"} :
    c # view.cohort_a /\ Rerun([view EXCEPT !.cohort_a = c])

SetRubricB ==
  \E r \in {"Socratic", PROACTIVE_RUBRIC} :
    r # view.rubric_b /\ Rerun([view EXCEPT !.rubric_b = r])

SetAggregateMode ==
  \E m \in {"Domain", "Node"} :
    m # view.aggregate_mode /\ Rerun([view EXCEPT !.aggregate_mode = m])

SetSelectedMetric ==
  \E m \in {"Overall", "Response Quality"} :
    m # view.selected_metric /\ Rerun([view EXCEPT !.selected_metric = m])

SetMissThreshold ==
  \E t \in MissThresholdChoices :
    t # view.miss_threshold /\ Rerun([view EXCEPT !.miss_threshold = t])

SetMinMisses ==
  \E m \in MinMissesChoices :
    m # view.min_misses /\ Rerun([view EXCEPT !.min_misses = m])

NextGraph ==
  \/ SetCohortA \/ SetRubricB \/ SetAggregateMode \/ SetSelectedMetric
  \/ SetMissThreshold \/ SetMinMisses

SpecGraph == InitGraph /\ [][NextGraph]_vars

(* ------------------- Faculty View: the centrality tab ------------------ *)
(* script runs of a session after the first *)
MaxReruns == 2

CentralitySectionAlways(st, graph) ==
  LET r == CentralityData(st, graph)
  IN [st |-> r.st, centrality_data |-> r.v, network_view |-> "tabs"]

(* what follows G_central: with an edge, the tabs and the centrality table *)
(* (its jitter drawn from the numpy stream); without one, the message that *)
(* no network connections were found                                       *)
CentralitySection(st, graph) ==
  IF HasEdges(graph)
  THEN LET r == CentralityData(st, graph)
       IN [st |-> r.st, centrality_data |-> r.v, network_view |-> "tabs"]
  ELSE [st |-> st, centrality_data |-> << >>, network_view |-> "no_edges"]

InitCentral ==
  \E groups \in GroupMaps :
    /\ FirstRun(groups)
    /\ \E r \in {CentralitySection(NpRandSeed(RANDOM_SEED), G)} :
         /\ np_rng = r.st
         /\ centrality_data = r.centrality_data
         /\ network_view = r.network_view

(* a rerun of the script up to the centrality table; get_data is cached,   *)
(* so the numpy stream is not seeded again                                 *)
RerunCentrality(v) ==
  /\ reruns < MaxReruns
  /\ reruns' = reruns + 1
  /\ RerunGraph(v)
  /\ \E r \in {CentralitySection(np_rng, G')} :
       /\ np_rng' = r.st
       /\ centrality_data' = r.centrality_data
       /\ network_view' = r.network_view
  /\ UNCHANGED <<rng, draws, args, call, repeated, soc_args, soc_long, soc_wide, soc_call,
                 df, students, app_groups, correlation_pairs, analysed_pairs,
                 plot_threshold, G_plot, str_hash, ctx_call, ctx_prev, workers>>

ShowCohortA ==
  \E c \in {"Undergrad", "Graduate", "All"} :
    c # view.cohort_a /\ RerunCentrality([view EXCEPT !.cohort_a = c])

ShowAggregateMode ==
  \E m \in {"Domain", "Node"} :
    m # view.aggregate_mode /\ RerunCentrality([view EXCEPT !.aggregate_mode = m])

ShowSelectedMetric ==
  \E m \in {"Overall", "Response Quality"} :
    m # view.selected_metric /\ RerunCentrality([view EXCEPT !.selected_metric = m])

ShowMissThreshold ==
  \E t \in MissThresholdChoices :
    t # view.miss_threshold /\ RerunCentrality([view EXCEPT !.miss_threshold = t])

ShowMinMisses ==
  \E m \in MinMissesChoices :
    m # view.min_misses /\ RerunCentrality([view EXCEPT !.min_misses = m])

NextCentral ==
  \/ ShowCohortA \/ ShowAggregateMode \/ ShowSelectedMetric \/ ShowMissThreshold
  \/ ShowMinMisses

SpecCentral == InitCentral /\ [][NextCentral]_vars

(* ------------------- Faculty View: the correlation tab ----------------- *)
(* score columns of a small analysed table, by row: a constant column, a   *)
(* rising and a falling one, and two that wander                           *)
ColumnPatterns ==
  [flat |-> <<20, 20, 20, 20, 20, 20>>, rising |-> <<10, 15, 20, 25, 30, 35>>,
   falling |-> <<30, 25, 20, 15, 10, 5>>, mixed |-> <<22, 9, 31, 14, 27, 18>>,
   wavy |-> <<12, 30, 18, 26, 21, 33>>]

OtherColumns == <<"wavy", "mixed", "rising", "falling">>

(* numbers of analysed rows: one too few for a correlation, then enough *)
NumRowsChoices == {3, 4, 6}

(* max_p_value slider, thousandths: its least value, its default, its most *)
MaxPValueChoices == {1, 50, 100}

(* a table of n rows, one per student: the first two elements of the map   *)
(* hold the columns c1 and c2, the others one of OtherColumns each         *)
PatternTable(groups, n, c1, c2) ==
  LET elements == ElementsOf(groups)
      column(k) == IF k = 1 THEN c1
                   ELSE IF k = 2 THEN c2 ELSE OtherColumns[(k % Len(OtherColumns)) + 1]
  IN [i \in 1..n |->
        [e \in Range(elements) |->
           ColumnPatterns[column(CHOOSE k \in 1..Len(elements) : elements[k] = e)][i]]
        @@ [student_id |-> StudentId(i), scenario |-> scenarios[1], mode |-> modes[1],
            attempt |-> 1]]

(* the first run of the analysis sections on such a table, under the       *)
(* default widget values but for the miss threshold                        *)
InitCorr ==
  \E n \in NumRowsChoices, c1 \in DOMAIN ColumnPatterns, c2 \in DOMAIN ColumnPatterns,
     t \in {0, DefaultView.miss_threshold} :
    LET v == [DefaultView EXCEPT !.cohort_a = "All", !.miss_threshold = t]
        data == PatternTable(GROUPS, n, c1, c2)
        elements == MetricElements(GROUPS, v.selected_metric)
        threshold == EffectiveMinMisses(elements, v.min_misses)
        graph == BuildMissGraph(data, GROUPS, elements, v.aggregate_mode,
                                v.miss_threshold, threshold)
    IN /\ rng = RandSeed(0)
       /\ np_rng = NpRandSeed(0)
       /\ draws = 0
       /\ args = [made |-> TRUE, n_students |-> n, n_attempts |-> 1, seed |-> RANDOM_SEED]
       /\ df = data
       /\ call = NoCall
       /\ repeated = FALSE
       /\ soc_args = [made |-> TRUE, n_students |-> n, seed |-> RANDOM_SEED,
                      num_attempts |-> 1]
       /\ soc_long = << >>
       /\ soc_wide = << >>
       /\ soc_call = NoCall
       /\ students = StudentList(n)
       /\ app_groups = GROUPS
       /\ view = v
       /\ combined_cohort_data = data
       /\ centrality_elements = elements
       /\ effective_min_misses = threshold
       /\ G = graph
       /\ \E tab \in {CorrelationTab(graph, data, GROUPS, v)} :
            correlation_pairs = tab.pairs /\ analysed_pairs = tab.analysed
       /\ centrality_data = << >>
       /\ network_view = "none"
       /\ reruns = 0
       /\ plot_threshold = DefaultPlotThreshold
       /\ G_plot = NoCall
       /\ ContextIdle

(* a change of a widget of the tab: the centrality section has the same    *)
(* inputs as before and rebuilds the same graph, the tab is recomputed     *)
RerunCorrelation(v) ==
  /\ view' = v
  /\ \E tab \in {CorrelationTab(G, combined_cohort_data, app_groups, v)} :
       correlation_pairs' = tab.pairs /\ analysed_pairs' = tab.analysed
  /\ UNCHANGED <<scriptVars, df, students, app_groups, combined_cohort_data,
                 centrality_elements, effective_min_misses, G, centrality_data,
                 network_view, reruns, plot_threshold,
                 G_plot, str_hash, ctx_call, ctx_prev, workers>>

SetCorrNetMetric ==
  \E m \in {"Overall", "Question Formulation", "Response Quality"} :
    m # view.corr_net_metric /\ RerunCorrelation([view EXCEPT !.corr_net_metric = m])

SetMaxPValue ==
  \E p \in MaxPValueChoices :
    p # view.max_p_value /\ RerunCorrelation([view EXCEPT !.max_p_value = p])

NextCorr == SetCorrNetMetric \/ SetMaxPValue

SpecCorr == InitCorr /\ [][NextCorr]_vars

(* ------------------- the feedback context across runs ------------------ *)
(* hash(student_id) of a str is keyed with a salt the process draws when   *)
(* it starts (PYTHONHASHSEED): a salt fixes one value per student id. The  *)
(* values drawn here have magnitudes 65541 (both signs) and 2**32 - 36     *)
HashValues ==
  <<[neg |-> FALSE, hi |-> 1, lo |-> 5], [neg |-> TRUE, hi |-> 1, lo |-> 5],
    [neg |-> TRUE, hi |-> Limb - 1, lo |-> Limb - 36]>>

HashSalts == 0..2

StudentNumber(s) == CHOOSE i \in 1..MaxStudents : StudentId(i) = s

StrHashes ==
  {[s \in Range(StudentList(MaxStudents)) |->
      HashValues[((StudentNumber(s) + salt) % Len(HashValues)) + 1]] : salt \in HashSalts}

(* domain_scores[domain] for domain in GROUPS *)
DomainScores(values) == [i \in 1..Len(values) |-> <<GROUPS[i][1], values[i]>>]

DomainProfiles ==
  {DomainScores(<<1400, 2460, 3550, 2270, 3000>>),
   DomainScores(<<3062, 3000, 2500, 3040, 3450>>)}

SocraticProfile ==
  [i \in 1..Len(socratic_components) |->
     <<socratic_components[i][2], <<2300, 3500, 2400, 3000, 1200>>[i]>>]

SpeechProfile ==
  [i \in 1..Len(SPEECH_METRICS) |-> <<SPEECH_METRICS[i], <<7200, 8600, 5400, 6900>>[i]>>]

CompletenessProfile ==
  [i \in 1..Len(ENCOUNTER_ELEMENTS) |-> <<ENCOUNTER_ELEMENTS[i], i % 2>>]

ContextArgChoices ==
  [student_id : Range(StudentList(MaxStudents)), attempt : {1, 3},
   domain_scores : DomainProfiles, socratic_scores : {SocraticProfile},
   speech_scores : {SpeechProfile}, encounter_completeness : {CompletenessProfile},
   seed : Seeds]

InitContext ==
  /\ rng \in {RandSeed(x) : x \in 0..1}
  /\ np_rng = NpRandSeed(0)
  /\ draws = 0
  /\ args = [made |-> TRUE, n_students |-> 1, n_attempts |-> 1, seed |-> RANDOM_SEED]
  /\ df = << >>
  /\ call = NoCall
  /\ repeated = FALSE
  /\ soc_args = [made |-> TRUE, n_students |-> 1, seed |-> RANDOM_SEED, num_attempts |-> 5]
  /\ soc_long = << >>
  /\ soc_wide = << >>
  /\ soc_call = NoCall
  /\ students = << >>
  /\ app_groups = GROUPS
  /\ view = DefaultView
  /\ combined_cohort_data = << >>
  /\ centrality_elements = << >>
  /\ effective_min_misses = DefaultView.min_misses
  /\ G = EmptyGraph
  /\ correlation_pairs = << >>
  /\ analysed_pairs = << >>
  /\ centrality_data = << >>
  /\ network_view = "none"
  /\ reruns = 0
  /\ plot_threshold = DefaultPlotThreshold
  /\ G_plot = NoCall
  /\ str_hash \in StrHashes
  /\ ctx_call = NoCall
  /\ ctx_prev = NoCall
  /\ workers = NoWorkers

(* context = generate_ai_feedback_context(...); the caller keeps the       *)
(* context of the call before (the test script saves it to a file)         *)
CallFeedbackContext ==
  /\ \E a \in ContextArgChoices :
       \E r \in {generate_ai_feedback_context(str_hash[a.student_id], a)} :
         /\ rng' = r.st
         /\ np_rng' = r.np_st
         /\ ctx_call' = [made |-> TRUE, args |-> a, combined_seed |-> r.combined_seed,
                         st |-> r.st, context |-> r.context]
  /\ ctx_prev' = ctx_call
  /\ UNCHANGED <<draws, args, call, repeated, soc_args, soc_long, soc_wide, soc_call, df,
                 students, app_groups, view, combined_cohort_data, centrality_elements,
                 effective_min_misses, G, correlation_pairs, analysed_pairs,
                 centrality_data, network_view, reruns, plot_threshold, G_plot, str_hash,
                 workers>>

(* the script is run again in a new process: another hash salt, streams    *)
(* seeded from the environment; the saved contexts stay                    *)
RestartProcess ==
  /\ str_hash' \in StrHashes
  /\ rng' \in {RandSeed(x) : x \in 0..1}
  /\ np_rng' = NpRandSeed(0)
  /\ UNCHANGED <<draws, args, call, repeated, soc_args, soc_long, soc_wide, soc_call, df,
                 students, app_groups, view, combined_cohort_data, centrality_elements,
                 effective_min_misses, G, correlation_pairs, analysed_pairs,
                 centrality_data, network_view, reruns, plot_threshold, G_plot, ctx_call,
                 ctx_prev, workers>>

NextContext == CallFeedbackContext \/ RestartProcess

SpecContext == InitContext /\ [][NextContext]_vars

(* ------------------- two generator calls in two threads ---------------- *)
(* the arguments of the two calls: different seeds *)
WorkerArgChoices ==
  {a \in [1..2 -> [n_students : 1..MaxStudents, n_attempts : {1}, seed : Seeds]] :
     a[1].seed # a[2].seed}

StartWorker(a) ==
  [pc |-> "seed", seed |-> a.seed, students |-> StudentList(a.n_students),
   attempts |-> AttemptList(a.n_attempts), baselines |-> EmptyDict, sens |-> EmptyDict,
   i |-> 1, rows |-> << >>, df |-> << >>]

InitConcurrent ==
  /\ rng \in {RandSeed(x) : x \in 0..1}
  /\ np_rng = NpRandSeed(0)
  /\ draws = 0
  /\ args = [made |-> TRUE, n_students |-> 1, n_attempts |-> 1, seed |-> RANDOM_SEED]
  /\ df = << >>
  /\ call = NoCall
  /\ repeated = FALSE
  /\ soc_args = [made |-> TRUE, n_students |-> 1, seed |-> RANDOM_SEED, num_attempts |-> 5]
  /\ soc_long = << >>
  /\ soc_wide = << >>
  /\ soc_call = NoCall
  /\ students = << >>
  /\ app_groups = GROUPS
  /\ view = DefaultView
  /\ combined_cohort_data = << >>
  /\ centrality_elements = << >>
  /\ effective_min_misses = DefaultView.min_misses
  /\ G = EmptyGraph
  /\ correlation_pairs = << >>
  /\ analysed_pairs = << >>
  /\ centrality_data = << >>
  /\ network_view = "none"
  /\ reruns = 0
  /\ plot_threshold = DefaultPlotThreshold
  /\ G_plot = NoCall
  /\ str_hash = DefaultStrHash
  /\ ctx_call = NoCall
  /\ ctx_prev = NoCall
  /\ \E a \in WorkerArgChoices : workers = [w \in 1..2 |-> StartWorker(a[w])]

WorkerFrame ==
  UNCHANGED <<draws, args, call, repeated, soc_args, soc_long, soc_wide, soc_call, df,
              students, app_groups, view, combined_cohort_data, centrality_elements,
              effective_min_misses, G, correlation_pairs, analysed_pairs,
              centrality_data, network_view, reruns, plot_threshold, G_plot, str_hash,
              ctx_call, ctx_prev>>

(* random.seed(seed); np.random.seed(seed) *)
WorkerSeed(w) ==
  /\ workers[w].pc = "seed"
  /\ rng' = SeedStreams(rng, workers[w].seed)
  /\ np_rng' = NpRandSeed(workers[w].seed)
  /\ workers' = [workers EXCEPT ![w].pc = "baselines"]
  /\ WorkerFrame

(* student_baselines and group_sensitivity: the draws of the two dict      *)
(* comprehensions                                                          *)
WorkerBaselines(w) ==
  /\ workers[w].pc = "baselines"
  /\ \E bl \in {UniformDict(rng, workers[w].students, 1, 1200, 2800, EmptyDict)} :
       \E gs \in {UniformDict(bl.st, GroupNames(GROUPS), 1, 800, 1200, EmptyDict)} :
         /\ rng' = gs.st
         /\ workers' = [workers EXCEPT ![w].pc = "rows", ![w].baselines = bl.v,
                                       ![w].sens = gs.v]
  /\ UNCHANGED np_rng
  /\ WorkerFrame

(* one iteration of "for s in students": the student's bias draws and rows *)
WorkerStudent(w) ==
  /\ workers[w].pc = "rows"
  /\ workers[w].i <= Len(workers[w].students)
  /\ \E r \in {AllRows(rng, SubSeq(workers[w].students, workers[w].i, workers[w].i), 1,
                       workers[w].attempts, workers[w].baselines, workers[w].sens,
                       GroupNames(GROUPS), GroupElementPairs(GROUPS),
                       ColumnIndex(GroupElementPairs(GROUPS)), workers[w].rows)} :
       /\ rng' = r.st
       /\ workers' = [workers EXCEPT ![w].i = @ + 1, ![w].rows = r.v]
  /\ UNCHANGED np_rng
  /\ WorkerFrame

(* df = pd.DataFrame(rows); return df.sample(frac=1.0, random_state=seed) *)
WorkerReturn(w) ==
  /\ workers[w].pc = "rows"
  /\ workers[w].i > Len(workers[w].students)
  /\ workers' = [workers EXCEPT ![w].pc = "returned",
                                ![w].df = Sample(workers[w].rows, workers[w].seed)]
  /\ UNCHANGED <<rng, np_rng>>
  /\ WorkerFrame

NextConcurrent ==
  \/ \E w \in 1..2 : WorkerSeed(w)
  \/ \E w \in 1..2 : WorkerBaselines(w)
  \/ \E w \in 1..2 : WorkerStudent(w)
  \/ \E w \in 1..2 : WorkerReturn(w)

SpecConcurrent == InitConcurrent /\ [][NextConcurrent]_vars

(* ------------------------------ properties ----------------------------- *)

(* C1: generate_mock_data is deterministic: a call that repeats the        *)
(* arguments of the call before it returns the same table, rows in the     *)
(* same order, whatever was drawn from the stream in between               *)
Determinism ==
  [][(call.made /\ call'.made /\ call' = call) => df' = df]_vars

DeterminismWitness == repeated /\ Len(df) > 0

(* C2: every row holds every element of the domain map, with a score in    *)
(* [0, 4] (0..40 tenths)                                                   *)
ScoresInRange ==
  \A i \in 1..Len(df) :
    \A el \in Range(ELEMENTS) : el \in DOMAIN df[i] /\ df[i][el] \in 0..40

ScoresInRangeWitness ==
  /\ call.made
  /\ \E i \in 1..Len(df) : \E el \in Range(ELEMENTS) : df[i][el] = 40

(* C3: one row per (student, scenario, mode, attempt) combination:         *)
(* |students| * 3 * 3 * |attempts| rows, none missing, none repeated       *)
RowPerCombination ==
  call.made =>
    /\ Len(df) = call.n_students * 3 * 3 * call.n_attempts
    /\ \A s \in Range(StudentList(call.n_students)), sc \in Range(scenarios),
          m \in Range(modes), a \in 1..call.n_attempts :
         Cardinality({i \in 1..Len(df) :
                        /\ df[i].student_id = s /\ df[i].scenario = sc
                        /\ df[i].mode = m /\ df[i].attempt = a}) = 1

RowPerCombinationWitness ==
  /\ call.made
  /\ call.n_students = 2 /\ call.n_attempts = 2
  /\ Len(df) = 36

(* C4: in every wide record the four speech scores are in [0, 10], the     *)
(* five dialogue scores in [0, 5] and the eight completion flags 0 or 1    *)
AuxiliaryInRange ==
  \A i \in 1..Len(soc_wide) :
    /\ \A m \in Range(SPEECH_METRICS) : soc_wide[i]["speech_" \o m] \in 0..100
    /\ \A m \in Range(socratic_specs) : soc_wide[i]["socratic_" \o m] \in 0..50
    /\ \A e \in Range(ENCOUNTER_ELEMENTS) : soc_wide[i]["encounter_" \o e] \in {0, 1}

AuxiliaryInRangeWitness ==
  /\ soc_call.made
  /\ \E i \in 1..Len(soc_wide) :
       \E m \in Range(SPEECH_METRICS) : soc_wide[i]["speech_" \o m] = 100
  /\ \E i, j \in 1..Len(soc_wide) :
       \E e \in Range(ENCOUNTER_ELEMENTS) :
         soc_wide[i]["encounter_" \o e] = 0 /\ soc_wide[j]["encounter_" \o e] = 1

(* C5: the wide table holds exactly one record for each (student, attempt) *)
(* with attempt in 1..num_attempts, and no other record                    *)
OneAuxiliaryRecordPerPair ==
  soc_call.made =>
    /\ \A s \in Range(StudentList(soc_call.n_students)), a \in 1..soc_call.num_attempts :
         Cardinality({i \in 1..Len(soc_wide) :
                        soc_wide[i].student_id = s /\ soc_wide[i].attempt = a}) = 1
    /\ \A i \in 1..Len(soc_wide) :
         /\ soc_wide[i].student_id \in Range(StudentList(soc_call.n_students))
         /\ soc_wide[i].attempt \in 1..soc_call.num_attempts

OneAuxiliaryRecordPerPairWitness ==
  /\ soc_call.made
  /\ soc_call.n_students = 2 /\ soc_call.num_attempts = 5
  /\ Len(soc_wide) = 10

(* ------------------ properties of the miss graph ----------------------- *)
(* what the properties speak of, read off the analysed rows alone: the     *)
(* students who scored below the miss threshold on element c in some row   *)
EverMissed(c) ==
  {combined_cohort_data[i].student_id :
     i \in {k \in 1..Len(combined_cohort_data) :
              combined_cohort_data[k][c] < view.miss_threshold}}

(* the elements a node stands for: itself, or the analysed elements of the *)
(* domain                                                                  *)
NodeElements(n) ==
  IF view.aggregate_mode = "Domain"
  THEN {e \in Range(GroupElements(app_groups, n)) : IsIn(e, centrality_elements)}
  ELSE {n}

(* the node universe of the graph under the current widget values *)
NodeUniverse ==
  IF view.aggregate_mode = "Domain"
  THEN {app_groups[k][1] : k \in {j \in 1..Len(app_groups) :
                                    \E e \in Range(app_groups[j][2]) :
                                      IsIn(e, centrality_elements)}}
  ELSE Range(centrality_elements)

(* the students who ever missed an element of node a and ever missed an    *)
(* element of node b                                                       *)
StudentsCoMissing(a, b) ==
  (UNION {EverMissed(e) : e \in NodeElements(a)})
    \cap (UNION {EverMissed(e) : e \in NodeElements(b)})

AnalysedStudents ==
  {combined_cohort_data[i].student_id : i \in 1..Len(combined_cohort_data)}

(* C6: the miss graph is undirected and simple: no self-loop, each edge    *)
(* held under both orders of its end points with the same weight, between  *)
(* two nodes of the graph, and no node listed twice                        *)
MissGraphSimple ==
  /\ \A e \in DOMAIN G.adj :
       /\ e[1] # e[2]
       /\ <<e[2], e[1]>> \in DOMAIN G.adj
       /\ G.adj[<<e[2], e[1]>>] = G.adj[e]
       /\ IsIn(e[1], G.nodes) /\ IsIn(e[2], G.nodes)
  /\ \A i, j \in 1..Len(G.nodes) : G.nodes[i] = G.nodes[j] => i = j

MissGraphSimpleWitness ==
  /\ view.aggregate_mode = "Node"
  /\ Len(G.nodes) = Len(centrality_elements)
  /\ Cardinality(DOMAIN G.adj) >= 6
  /\ \E a, b \in Range(G.nodes) : a # b /\ <<a, b>> \notin DOMAIN G.adj

(* C7: an edge exists only if its weight is at least the effective         *)
(* minimum-count threshold, which is at least 1: no edge has weight 0      *)
EdgeMeetsThreshold ==
  /\ effective_min_misses >= 1
  /\ \A e \in DOMAIN G.adj : G.adj[e] >= effective_min_misses /\ G.adj[e] > 0

EdgeMeetsThresholdWitness ==
  /\ view.aggregate_mode = "Node"
  /\ effective_min_misses = 2
  /\ \E e \in DOMAIN G.adj : G.adj[e] = 2
  /\ \E a, b \in Range(G.nodes) :
       /\ a # b
       /\ Cardinality(StudentsCoMissing(a, b)) = 1
       /\ <<a, b>> \notin DOMAIN G.adj

(* C8, as the code has it: the threshold is relaxed to 1 when at most 4    *)
(* ELEMENTS are analysed, whatever min_misses is, and then at Element      *)
(* granularity every pair of elements that at least one student missed     *)
(* both of has an edge; with more than 4 analysed elements the threshold   *)
(* stays min_misses, however few nodes the graph has                       *)
ThresholdAdaptiveOnElements ==
  /\ Len(centrality_elements) <= 4 => effective_min_misses = 1
  /\ Len(centrality_elements) > 4 => effective_min_misses = view.min_misses
  /\ (Len(centrality_elements) <= 4 /\ view.aggregate_mode = "Node"
        /\ Len(combined_cohort_data) > 0) =>
       \A a, b \in NodeUniverse :
         (a # b /\ Cardinality(StudentsCoMissing(a, b)) >= 1) => <<a, b>> \in DOMAIN G.adj

ThresholdAdaptiveOnElementsWitness ==
  /\ view.aggregate_mode = "Node"
  /\ Len(centrality_elements) = 4
  /\ view.min_misses = 5
  /\ \E e \in DOMAIN G.adj : G.adj[e] < 5

(* C8 as claimed: whenever the node universe has at most 4 nodes, every    *)
(* node pair with a raw co-miss count of at least 1 has an edge, at        *)
(* either granularity                                                      *)
ThresholdAdaptiveOnNodes ==
  (Cardinality(NodeUniverse) <= 4 /\ Len(combined_cohort_data) > 0) =>
    \A a, b \in NodeUniverse :
      (a # b /\ Cardinality(StudentsCoMissing(a, b)) >= 1) => <<a, b>> \in DOMAIN G.adj

(* C9 as claimed: the weight of an edge is the number of students who      *)
(* satisfy the co-miss predicate for its node pair, and so never exceeds   *)
(* the number of students in the analysed table                            *)
WeightCountsStudents ==
  \A e \in DOMAIN G.adj :
    /\ G.adj[e] = Cardinality(StudentsCoMissing(e[1], e[2]))
    /\ G.adj[e] <= Cardinality(AnalysedStudents)

(* ------------------ properties of the correlations --------------------- *)
(* the p-value of a pair of elements on the analysed rows *)
PairPValue(elem1, elem2) ==
  Pearson([i \in 1..Len(combined_cohort_data) |-> combined_cohort_data[i][elem1]],
          [i \in 1..Len(combined_cohort_data) |-> combined_cohort_data[i][elem2]]).p_value

Listed(elem1, elem2) ==
  \E k \in 1..Len(correlation_pairs) :
    correlation_pairs[k].elem1 = elem1 /\ correlation_pairs[k].elem2 = elem2

(* C10: every listed correlation pair has a defined p-value that is below  *)
(* max_p_value                                                             *)
SignificanceFiltering ==
  \A k \in 1..Len(correlation_pairs) :
    /\ ~correlation_pairs[k].P_Value.nan
    /\ correlation_pairs[k].P_Value.v < view.max_p_value

SignificanceFilteringWitness ==
  /\ Len(combined_cohort_data) > 3
  /\ view.max_p_value = 100
  /\ Len(correlation_pairs) > 0
  /\ \E a, b \in Range(MetricElements(app_groups, view.corr_net_metric)) :
       /\ ~PairPValue(a, b).nan /\ PairPValue(a, b).v >= view.max_p_value
       /\ ~Listed(a, b) /\ ~Listed(b, a)
  /\ \E a, b \in Range(MetricElements(app_groups, view.corr_net_metric)) :
       a # b /\ PairPValue(a, b).nan /\ ~Listed(a, b) /\ ~Listed(b, a)

(* how many times stats.pearsonr was called for elem1 with elem2 *)
TimesAnalysed(elem1, elem2) ==
  Cardinality({k \in 1..Len(analysed_pairs) :
                 analysed_pairs[k].elem1 = elem1 /\ analysed_pairs[k].elem2 = elem2})

(* C11: in a run of the correlation loop every unordered pair of the       *)
(* selected elements is analysed exactly once when the table has at least  *)
(* 4 rows holding both values, and no pair is analysed or listed when it   *)
(* has fewer; a listed pair is an analysed one with N >= 4                 *)
PairsNeedFourRows ==
  LET elements == MetricElements(app_groups, view.corr_net_metric)
      rows == Len(combined_cohort_data)
  IN /\ (HasEdges(G) /\ rows >= 4) =>
          /\ \A i, j \in 1..Len(elements) :
               TimesAnalysed(elements[i], elements[j]) = IF i < j THEN 1 ELSE 0
          /\ 2 * Len(analysed_pairs) = Len(elements) * (Len(elements) - 1)
     /\ rows < 4 => analysed_pairs = << >> /\ correlation_pairs = << >>
     /\ \A k \in 1..Len(correlation_pairs) :
          /\ correlation_pairs[k].N >= 4
          /\ \E a \in 1..Len(analysed_pairs) : analysed_pairs[a] = correlation_pairs[k]

PairsNeedFourRowsWitness ==
  /\ HasEdges(G)
  /\ Len(combined_cohort_data) = 4
  /\ view.corr_net_metric = "Overall"
  /\ Len(analysed_pairs) = 190
  /\ Len(correlation_pairs) \in 1..189

(* C12: for every analysed pair, when |r| >= 0.999 the interval is the     *)
(* degenerate lower = upper = r; when |r| < 0.999 it is                    *)
(* tanh(atanh(r) -/+ 1.96/sqrt(N - 3)), a proper interval around r inside  *)
(* [-1, 1]; and N - 3 >= 1, so the standard error never divides by zero    *)
DegenerateInterval ==
  \A k \in 1..Len(analysed_pairs) :
    LET p == analysed_pairs[k]
        r == p.Correlation.v
        ci == (1960 * 1000) \div ISqrt((p.N - 3) * 1000000)
    IN /\ p.N - 3 >= 1
       /\ (~p.Correlation.nan /\ Abs(r) >= 999) =>
            p.CI_Lower = p.Correlation /\ p.CI_Upper = p.Correlation
       /\ (~p.Correlation.nan /\ Abs(r) < 999) =>
            /\ p.CI_Lower = Float(Tanh(Arctanh(r) - ci))
            /\ p.CI_Upper = Float(Tanh(Arctanh(r) + ci))
            /\ p.CI_Lower.v < p.CI_Upper.v
            /\ p.CI_Lower.v <= r /\ r <= p.CI_Upper.v
            /\ -1000 <= p.CI_Lower.v /\ p.CI_Upper.v <= 1000

DegenerateIntervalWitness ==
  /\ \E k \in 1..Len(correlation_pairs) :
       /\ Abs(correlation_pairs[k].Correlation.v) >= 999
       /\ correlation_pairs[k].CI_Lower = correlation_pairs[k].CI_Upper
       /\ correlation_pairs[k].N = 4
  /\ \E k \in 1..Len(analysed_pairs) :
       /\ Abs(analysed_pairs[k].Correlation.v) \in 500..998
       /\ analysed_pairs[k].CI_Lower.v < analysed_pairs[k].CI_Upper.v

(* ------------------ properties of the centrality tab ------------------- *)
(* C13: a graph without an edge is a normal outcome of a run: the run ends *)
(* with the no-connections message and no centrality table; a graph with   *)
(* an edge gets the tabs                                                   *)
EmptyGraphIsTerminal ==
  /\ DOMAIN G.adj = {} => network_view = "no_edges" /\ centrality_data = << >>
  /\ DOMAIN G.adj # {} => network_view = "tabs"

EmptyGraphIsTerminalWitness ==
  /\ reruns > 0
  /\ DOMAIN G.adj = {}
  /\ Len(G.nodes) > 0
  /\ \E a, b \in NodeUniverse : a # b /\ Cardinality(StudentsCoMissing(a, b)) >= 1
  /\ network_view = "no_edges"

(* ------------------ properties of the script's network plot ------------ *)
(* C14 as claimed: for a table without rows, or a miss threshold below 0   *)
(* or above 4, the graph builder does not raise and returns a graph        *)
(* without an edge                                                         *)
InvalidInputGivesNoEdge ==
  (G_plot.made /\ (Len(df) = 0 \/ plot_threshold < 0 \/ plot_threshold > 40)) =>
    ~G_plot.raised /\ DOMAIN G_plot.graph.adj = {}

(* ------------------ properties of malformed calls ---------------------- *)
(* C15 as claimed, for the attempt count: a generate_socratic_metrics call *)
(* with a negative num_attempts ends in an error, so it never returns      *)
(* tables to its caller                                                    *)
MalformedCallFails ==
  ~(soc_call.made /\ soc_call.num_attempts < 0)

(* --------------- properties of the process-wide streams ---------------- *)
(* C17 as claimed: a generate_mock_data call leaves the process-wide       *)
(* `random` and numpy generators as they were, so the draws a caller       *)
(* takes afterwards are those it would have taken without the call         *)
GeneratorsLeftUnchanged ==
  [][CallGenerateMockData => (rng' = rng /\ np_rng' = np_rng)]_vars

(* --------------- properties of concurrent generator calls -------------- *)
(* C16 as claimed: each of two generate_mock_data calls with different     *)
(* seeds that run in two threads, their draws interleaved, returns the     *)
(* table it returns when it runs alone                                     *)
ConcurrentCallsIndependent ==
  \A w \in 1..2 :
    workers[w].pc = "returned" =>
      workers[w].df = generate_mock_data(rng, workers[w].students, workers[w].attempts,
                                         workers[w].seed, GROUPS).df

(* ------------------ properties of the feedback context ----------------- *)
(* C18 as claimed: two generate_ai_feedback_context calls with the same    *)
(* seed, student id and attempt derive the same combined_seed, in whatever *)
(* process run each is made                                                *)
DerivedSeedSameInEveryRun ==
  (/\ ctx_call.made /\ ctx_prev.made
   /\ ctx_call.args.seed = ctx_prev.args.seed
   /\ ctx_call.args.student_id = ctx_prev.args.student_id
   /\ ctx_call.args.attempt = ctx_prev.args.attempt) =>
    ctx_call.combined_seed = ctx_prev.combined_seed

(* C19: two generate_ai_feedback_context calls with the same arguments     *)
(* return equal contexts, in the same process run or not, and at its       *)
(* return the `random` stream is as random.seed(combined_seed) left it: no *)
(* draw was taken                                                          *)
ContextDeterminedByInputs ==
  /\ (ctx_call.made /\ ctx_prev.made /\ ctx_call.args = ctx_prev.args) =>
       ctx_call.context = ctx_prev.context
  /\ ctx_call.made => ctx_call.st = RandSeed(SeedKey(ctx_call.combined_seed))

(* the same arguments in two runs with different hashes of the student id, *)
(* for scores that give strengths, growth areas and both feedback lists    *)
ContextDeterminedByInputsWitness ==
  /\ ctx_call.made /\ ctx_prev.made /\ ctx_call.args = ctx_prev.args
  /\ ctx_call.combined_seed # ctx_prev.combined_seed
  /\ Len(ctx_call.context.top_strengths) > 1
  /\ Len(ctx_call.context.growth_areas) > 1
  /\ Len(ctx_call.context.what_student_did_well) > 0
  /\ Len(ctx_call.context.areas_for_improvement) > 0
  /\ ~ctx_call.context.descriptive_statistics.domain_scores.empty

(* ------------------ properties of the centrality table ----------------- *)
(* C20: when the centrality section makes its table, the table holds one   *)
(* record per node of G_central, in node order and for no other element,   *)
(* and the Degree, Betweenness and Closeness of every record are at least  *)
(* 0; when it makes no table there is no record at all                     *)
OneCentralityRecordPerNode ==
  /\ network_view = "tabs" =>
       /\ Len(centrality_data) = Len(G.nodes)
       /\ \A i \in 1..Len(centrality_data) :
            /\ centrality_data[i].Element = G.nodes[i]
            /\ \A j \in 1..Len(centrality_data) :
                 centrality_data[j].Element = centrality_data[i].Element => j = i
            /\ centrality_data[i].Degree >= 0
            /\ centrality_data[i].Betweenness >= 0
            /\ centrality_data[i].Closeness >= 0
  /\ network_view # "tabs" => centrality_data = << >>

(* a table for a graph with a node without edges, which has its record,    *)
(* and a node that lies on shortest paths between others                   *)
OneCentralityRecordPerNodeWitness ==
  /\ network_view = "tabs"
  /\ \E i \in 1..Len(G.nodes) : \A e \in DOMAIN G.adj : e[1] # G.nodes[i]
  /\ \E i \in 1..Len(centrality_data) :
       centrality_data[i].Betweenness > 2000 /\ centrality_data[i].Degree > 2000
  /\ \E i \in 1..Len(centrality_data) : centrality_data[i].Closeness = 0

(* ------------------ properties of the co-miss counts ------------------- *)
(* the rows of student s *)
RowsOf(s) ==
  {i \in 1..Len(combined_cohort_data) : combined_cohort_data[i].student_id = s}

(* C21: at Element granularity two analysed elements have an edge exactly  *)
(* when the students who scored strictly below the threshold on the one in *)
(* some row and on the other in some row, the same row or not, number at   *)
(* least the effective threshold, and the weight of the edge is that       *)
(* number of students                                                      *)
ElementCoMissPerStudent ==
  (view.aggregate_mode = "Node" /\ Len(combined_cohort_data) > 0) =>
    \A c1, c2 \in Range(centrality_elements) :
      c1 # c2 =>
        LET co_miss == Cardinality(EverMissed(c1) \cap EverMissed(c2))
        IN /\ (<<c1, c2>> \in DOMAIN G.adj) <=> (co_miss >= effective_min_misses)
           /\ (<<c1, c2>> \in DOMAIN G.adj) => G.adj[<<c1, c2>>] = co_miss

(* an edge that counts a student who never missed both elements in one row *)
ElementCoMissPerStudentWitness ==
  /\ view.aggregate_mode = "Node"
  /\ \E e \in DOMAIN G.adj :
       \E s \in EverMissed(e[1]) \cap EverMissed(e[2]) :
         \A i \in RowsOf(s) :
           ~(combined_cohort_data[i][e[1]] < view.miss_threshold
               /\ combined_cohort_data[i][e[2]] < view.miss_threshold)
  /\ \E i \in 1..Len(combined_cohort_data) :
       \E c \in Range(centrality_elements) :
         combined_cohort_data[i][c] = view.miss_threshold

(* the analysed elements of domain g, in the order of the domain map *)
AnalysedElements(g) ==
  SelectSeq(GroupElements(app_groups, g), LAMBDA e : IsIn(e, centrality_elements))

(* the co-miss count of two domains, read off the analysed rows: over the  *)
(* pairs of an analysed element of a and one of b, the students who ever   *)
(* missed both                                                             *)
DomainPairCoMiss(a, b) ==
  SumSeq([i \in 1..Len(AnalysedElements(a)) |->
            SumSeq([j \in 1..Len(AnalysedElements(b)) |->
                      Cardinality(EverMissed(AnalysedElements(a)[i])
                                    \cap EverMissed(AnalysedElements(b)[j]))], 1)], 1)

(* C22: at Domain granularity two domains with analysed elements have an   *)
(* edge exactly when their co-miss count is at least                       *)
(* min_misses * |elementsA| * |elementsB| / 4                              *)
DomainEdgeScaled ==
  (view.aggregate_mode = "Domain" /\ Len(combined_cohort_data) > 0) =>
    \A a, b \in NodeUniverse :
      a # b =>
        ((<<a, b>> \in DOMAIN G.adj) <=>
           (4 * DomainPairCoMiss(a, b) >=
              view.min_misses * Len(AnalysedElements(a)) * Len(AnalysedElements(b))))

(* a pair of domains with an edge, and a pair whose count reaches          *)
(* min_misses but not the scaled threshold and so has none                 *)
DomainEdgeScaledWitness ==
  /\ view.aggregate_mode = "Domain"
  /\ DOMAIN G.adj # {}
  /\ \E a, b \in NodeUniverse :
       /\ a # b
       /\ <<a, b>> \notin DOMAIN G.adj
       /\ DomainPairCoMiss(a, b) >= view.min_misses
       /\ Len(AnalysedElements(a)) * Len(AnalysedElements(b)) > 4

(* ------------------ properties of the row order ------------------------ *)
IndexOf(list, e) == CHOOSE i \in 1..Len(list) : list[i] = e

(* the place of a row in the nested loops of generate_mock_data: student,  *)
(* scenario, mode, attempt                                                 *)
GenerationRank(r) ==
  ((IndexOf(students, r.student_id) * Len(scenarios) + IndexOf(scenarios, r.scenario))
     * Len(modes) + IndexOf(modes, r.mode)) * (MaxAttempts + 2) + r.attempt

(* the rows of the table in the order they were generated in *)
GenerationOrder(table) ==
  [k \in 1..Len(table) |->
     table[CHOOSE i \in 1..Len(table) :
             Cardinality({j \in 1..Len(table) :
                            GenerationRank(table[j]) < GenerationRank(table[i])}) = k - 1]]

(* C23 as claimed: the miss graph built from the shuffled table the        *)
(* generator returns is the graph built from the same rows in generation   *)
(* order                                                                   *)
ShuffleKeepsMissGraph ==
  G = BuildMissGraph(CombinedCohortData(view, GenerationOrder(df), students), app_groups,
                     centrality_elements, view.aggregate_mode, view.miss_threshold,
                     effective_min_misses)

(* ------------------ properties of the combined cohorts ----------------- *)
(* the rows of a cohort selection under the current time window *)
CohortRows(cohort) ==
  Range(TimeWindowFilter(CohortFilter(df, cohort, students), view.time_window, df))

(* C29 as claimed: when both cohorts use the PROaCTIVE rubric, every row   *)
(* of either cohort is in the combined data exactly once                   *)
CombinedKeepsDistinctRows ==
  (view.rubric_a = PROACTIVE_RUBRIC /\ view.rubric_b = PROACTIVE_RUBRIC) =>
    \A r \in CohortRows(view.cohort_a) \cup CohortRows(view.cohort_b) :
      Cardinality({i \in 1..Len(combined_cohort_data) : combined_cohort_data[i] = r}) = 1

(* --------- properties of the correlation tab and the miss graph -------- *)
(* C24 as claimed: for a non-empty score table the correlation pairs shown *)
(* are those of the table, the focus metric and the maximum p-value,       *)
(* whatever the miss graph is                                              *)
CorrelationIndependentOfGraph ==
  Len(combined_cohort_data) > 0 =>
    correlation_pairs =
      CorrelationPairs(NoPairs, combined_cohort_data,
                       MetricElements(app_groups, view.corr_net_metric),
                       view.max_p_value, 1).pairs

(* ------------------ properties of the checklist flags ------------------ *)
(* the probability that "random.random() < completion_prob" sets a flag of *)
(* the attempt, in thousandths: the share of the values random.random()    *)
(* can return for which the comparison holds                               *)
FlagProbability(attempt) ==
  (Cardinality({v \in 0..(RandResolution - 1) :
                  v * 1000 < CompletionProb(attempt) * RandResolution}) * 1000)
    \div RandResolution

AttemptsGenerated == {soc_wide[i].attempt : i \in 1..Len(soc_wide)}

(* C25: for every attempt of the table the probability a checklist flag is *)
(* set with is 0.5 + 0.08 * (attempt - 1) capped at 1, never above 1 and   *)
(* never lower for a later attempt; where it is 1 every flag is set        *)
CompletionProbabilityCapped ==
  /\ \A a \in AttemptsGenerated :
       /\ FlagProbability(a) = Min(1000, 500 + 80 * (a - 1))
       /\ FlagProbability(a) <= 1000
       /\ \A b \in AttemptsGenerated : a <= b => FlagProbability(a) <= FlagProbability(b)
  /\ \A i \in 1..Len(soc_wide) :
       500 + 80 * (soc_wide[i].attempt - 1) >= 1000 =>
         \A k \in 1..Len(ENCOUNTER_ELEMENTS) :
           soc_wide[i]["encounter_" \o ENCOUNTER_ELEMENTS[k]] = 1

(* a table with the attempts 1 to 8: at attempt 8 the formula gives 1.06,  *)
(* and at attempt 1 some flag is not set                                   *)
CompletionProbabilityCappedWitness ==
  /\ soc_call.made
  /\ AttemptsGenerated = 1..8
  /\ \E i \in 1..Len(soc_wide) :
       /\ soc_wide[i].attempt = 1
       /\ \E k \in 1..Len(ENCOUNTER_ELEMENTS) :
            soc_wide[i]["encounter_" \o ENCOUNTER_ELEMENTS[k]] = 0

(* ------------------ properties of the modifiers ------------------------ *)
(* C26 as claimed: in the last generate_mock_data call, the rows of one    *)
(* student, scenario and mode were all made with the same scenario         *)
(* modifier and the same mode modifier, whatever their attempt             *)
ModifiersOncePerCombination ==
  call.made =>
    LET log == ModifierLog(StudentList(call.n_students), AttemptList(call.n_attempts),
                           call.seed, GROUPS).v
    IN \A i, j \in 1..Len(log) :
         (/\ log[i].student_id = log[j].student_id
          /\ log[i].scenario = log[j].scenario
          /\ log[i].mode = log[j].mode) =>
           /\ log[i].scenario_modifier = log[j].scenario_modifier
           /\ log[i].mode_modifier = log[j].mode_modifier

(* ------------------ properties of the latent bases --------------------- *)
(* C27 as claimed: in the last generate_socratic_metrics call, every       *)
(* speech metric and every dialogue metric of a student has one base       *)
(* value, the same in all attempts of the student                          *)
OneBasePerStudentMetric ==
  soc_call.made =>
    LET log == BaseLog(StudentList(soc_call.n_students), soc_call.seed,
                       soc_call.num_attempts).v
    IN \A i, j \in 1..Len(log) :
         (log[i].student_id = log[j].student_id /\ log[i].metric = log[j].metric) =>
           log[i].base = log[j].base

(* ------------------ properties of the reported Degree ------------------ *)
(* C28: the Degree of every record of the centrality table is the          *)
(* normalized degree of its node in G_central, degree over the number of   *)
(* nodes less one, so that the table depends on the graph alone            *)
DegreeIsNormalizedDegree ==
  network_view = "tabs" =>
    \A i \in 1..Len(centrality_data) :
      centrality_data[i].Degree = degree_centrality(G)[i]

(* ------------------ properties of the observed behaviors --------------- *)
(* the Question Formulation observations of a context *)
QuestionObservations(context) ==
  {context.observed_behaviors[i][2] :
     i \in {j \in 1..Len(context.observed_behaviors) :
              context.observed_behaviors[j][1] = "Question Formulation"}}

(* C30: a context made for a Question Formulation score of 3.0 or more     *)
(* holds the open-ended observation, one made for a score under 2.5 the    *)
(* closed-ended observation, and one for a score between holds neither     *)
QuestionObservationFollowsScore ==
  ctx_call.made =>
    LET score == DictGet(ctx_call.args.domain_scores, "PRO_01_Question_Formulation", 0)
        seen == QuestionObservations(ctx_call.context)
    IN /\ score >= 3000 => seen = {"open-ended"}
       /\ score < 2500 => seen = {"closed-ended"}
       /\ (score >= 2500 /\ score < 3000) => seen = {}

====
